---- MODULE Spec2Model ----
(***************************************************************************)
(* ci-guardian: the webhook handler (webhook/handler.py), its in-memory    *)
(* deduplication cache, and the background failure-remediation pipeline    *)
(* process_workflow_failure with the collaborators it awaits.              *)
(*                                                                         *)
(* The program runs on one asyncio event loop.  An action of this model is *)
(* the code that runs between two suspension points (awaits that really    *)
(* yield to the loop): it is atomic in the program as well.                *)
(***************************************************************************)
EXTENDS Integers, Sequences, FiniteSets, Bags, TLC

VARIABLES
    clock,            \* time.time(), in whole seconds
    ticks,            \* how often the clock has advanced
    allowed_repos,    \* Settings.allowed_repos
    processed_runs,   \* handler._processed_runs: run_id -> timestamp
    nReq,             \* webhook deliveries received so far
    nBody,            \* handler invocations suspended at `await request.body()`
    atJson,           \* those suspended at `await request.json()`: a bag of
                      \* <<signature header, tasks queued so far>>, both as they
                      \* were when the signature passed validation
    items,            \* the background tasks queued by add_task: a bag of task
                      \* records; a finished task stays for one step, with its
                      \* outcome, and is dropped by the next
    resp,             \* the HTTP response the latest step sent, with the request
                      \* it answers, if that step sent one
    accepted,         \* history: the bag of <<run_id, time>>, one per task queued
    logs,             \* parser.py: the text parse_error_logs is given, as lines
    parsed_errors,    \* parser.py: what parse_error_logs did with it
    response,         \* claude.py: what client.messages.create does
    fix_result,       \* claude.py: what analyze_failure did with it
    applier_input,    \* handler.py: the changes handed to apply_fix
    signed,           \* validator.py: the payload, signature and secret that
                      \* validate_github_signature is given
    valid,            \* validator.py: what validate_github_signature did
    applied,          \* fixer.py: the task that called apply_fix, with the
                      \* working copy's files as apply_fix left them
    workspace         \* repo.py, fixer.py: the directories under the temporary
                      \* directory and what each task has done to the filesystem

\* The state of the webhook handler and its tasks
main == <<clock, ticks, allowed_repos, processed_runs, nReq, nBody, atJson, items,
          resp, accepted>>

\* The inputs and results of the analysis functions taken on their own
analysed == <<logs, parsed_errors, response, fix_result, applier_input,
              signed, valid, applied, workspace>>

\* The input and result of the signature check taken on its own
checked == <<signed, valid>>

vars == <<clock, ticks, allowed_repos, processed_runs, nReq, nBody, atJson, items,
          resp, accepted, logs, parsed_errors, response, fix_result, applier_input,
          signed, valid, applied, workspace>>

----------------------------------------------------------------------------
(* Bounds of the model *)

\* webhook deliveries over the whole run
MaxRequests == 2
\* clock advances over the whole run
MaxTicks == 2

(* Program constants *)

\* handler.py: _CACHE_TTL_SECONDS
CACHE_TTL_SECONDS == 3600

\* Python's None (an absent header, an absent JSON key read with .get)
None == "None"

\* A function that has not been called, and the outcome of one that has:
\* `raised` is None when it returned, else the exception that left it.
NotCalled == [raised |-> "not called"]

Return(result) == [raised |-> None, result |-> result]
Raise(exception) == [raised |-> exception]

\* The clock advances by a second or by a whole TTL: ages just below, at and
\* just above the TTL all occur.
ClockSteps == {1, CACHE_TTL_SECONDS}

----------------------------------------------------------------------------
(* Inbound requests *)

RunIds == {"12345", "42"}

\* The webhook secret of the settings and a key an attacker might sign with.
Secret == "test-webhook-secret"
Keys == {Secret, "wrong-secret"}

\* Request bodies, as bytes: the one the deliveries carry, and another
Body == "completed event"
Bodies == {Body, "started event"}

\* hmac.new(key, payload, sha256).hexdigest(): a hex string determined by key
\* and payload, different for different keys or payloads.
HmacHex(key, payload) == <<"hmac-sha256", key, payload>>

\* X-Hub-Signature-256 header values: absent (None), or a string, given as
\* its prefix up to "=" and the rest.
NoSignature == <<>>

\* The header values of the deliveries: absent, or a prefix and the digest of
\* the body under some key, all of ASCII characters.
Signatures ==
    {NoSignature} \cup
    { <<prefix, HmacHex(key, Body)>> : prefix \in {"sha256=", "sha1="}, key \in Keys }

\* the empty string
EmptySignature == <<"", <<>>>>

\* What may follow the prefix in a header value: a digest of some body under
\* some key, 64 hex digits that are no digest, nothing, or characters
\* outside ASCII (header bytes above 0x7f reach the handler as such).
Digests ==
    { HmacHex(key, payload) : key \in Keys, payload \in Bodies } \cup
    { <<"hex", "aaaa">>, <<>>, <<"non-ascii", "e-acute">> }

\* Every value the signature argument is given
SignatureValues ==
    {NoSignature, EmptySignature} \cup
    { <<prefix, digest>> : prefix \in {"sha256=", "sha1="}, digest \in Digests }

\* The calls of validate_github_signature
Calls ==
    [payload : Bodies, signature : SignatureValues, secret : Keys]

\* X-GitHub-Event header values
Events == {"workflow_run", "pull_request"}

\* A decoded JSON payload.  action, conclusion, id and full_name are None when
\* the key (or its parent object) is absent; `missing` lists the absent keys
\* of workflow_run among the ones only the pipeline reads.
Payload(action, conclusion, id, full_name, missing) ==
    [action |-> action, conclusion |-> conclusion, id |-> id,
     full_name |-> full_name, missing |-> missing]

\* The payload slot of a response sent before the payload was looked at.
NoPayload == Payload(None, None, None, None, {})

Complete(id) == Payload("completed", "failure", id, "owner/repo", {})

\* The payloads deliveries carry: a complete failure event per run id, and
\* that of run 12345 with one deviation each.
Payloads ==
    { Complete(id) : id \in RunIds } \cup
    { Payload("requested", "failure", "12345", "owner/repo", {}),
      Payload("completed", "success", "12345", "owner/repo", {}),
      Payload("completed", None, None, "owner/repo", {}),
      Payload("completed", "failure", "12345", "other/repo", {}),
      Payload("completed", "failure", "12345", "owner/repo", {"head_branch"}),
      Payload("completed", "failure", "12345", "owner/repo", {"html_url"}) }

----------------------------------------------------------------------------
(* webhook/validator.py *)

\* `not signature`
is_missing(signature) == signature = NoSignature \/ signature = EmptySignature

is_ascii(signature) == signature[2] = <<>> \/ signature[2][1] # "non-ascii"

\* hmac.compare_digest(a, b) of two str: TypeError unless both are ASCII
compare_digest(a, b) ==
    IF ~is_ascii(a) \/ ~is_ascii(b) THEN Raise("TypeError") ELSE Return(a = b)

\* signature.startswith(prefix)
startswith(signature, prefix) == signature[1] = prefix

\* validate_github_signature: what it returns, or the exception it raises
validate_github_signature(payload, signature, secret) ==
    IF is_missing(signature) THEN Return(FALSE)
    ELSE IF ~startswith(signature, "sha256=") THEN Return(FALSE)
    ELSE compare_digest(<<"sha256=", HmacHex(secret, payload)>>, signature)

\* validate_github_signature is called.
ValidateSignature ==
    /\ signed # <<>>
    /\ valid = NotCalled
    /\ valid' = validate_github_signature(signed[1].payload, signed[1].signature,
                                          signed[1].secret)
    /\ UNCHANGED main
    /\ UNCHANGED <<logs, parsed_errors, response, fix_result, applier_input, signed>>
    /\ UNCHANGED <<applied, workspace>>

(* config.py *)

is_repo_allowed_deny_empty(allowed, repo_full_name) ==
    repo_full_name \in allowed

is_repo_allowed(allowed, repo_full_name) ==
    IF allowed = {} THEN TRUE ELSE repo_full_name \in allowed

----------------------------------------------------------------------------
(* The deduplication cache, webhook/handler.py *)

cleanup_cache_at_ttl(cache, current_time) ==
    [ run_id \in { r \in DOMAIN cache : ~(current_time - cache[r] >= CACHE_TTL_SECONDS) }
        |-> cache[run_id] ]

cleanup_cache_skipped(cache, current_time) == cache

\* _cleanup_cache: drop every entry older than the TTL
cleanup_cache(cache, current_time) ==
    [ run_id \in { r \in DOMAIN cache : ~(current_time - cache[r] > CACHE_TTL_SECONDS) }
        |-> cache[run_id] ]

is_duplicate_never(cache, run_id) == FALSE

\* `if run_id in _processed_runs`
is_duplicate(cache, run_id) == run_id \in DOMAIN cache

record_run_skip(cache, run_id, now) == cache

\* `_processed_runs[run_id] = time.time()`
record_run(cache, run_id, now) ==
    [ r \in DOMAIN cache \cup {run_id} |-> IF r = run_id THEN now ELSE cache[r] ]

dedup_refreshing(cache, run_id, now) ==
    [duplicate |-> is_duplicate(cache, run_id), cache |-> record_run(cache, run_id, now)]

\* Lines 170-174: a run id that is recorded is a duplicate and the handler
\* returns; one that is not is recorded with the time of this request.
dedup(cache, run_id, now) ==
    IF is_duplicate(cache, run_id)
    THEN [duplicate |-> TRUE, cache |-> cache]
    ELSE [duplicate |-> FALSE, cache |-> record_run(cache, run_id, now)]

----------------------------------------------------------------------------
(* Records *)

\* An HTTP response of github_webhook together with the request it answers.
\* History: `age` is how long ago the request's run id had last been accepted,
\* `queued_before` the number of tasks queued when the request was validated.
Response(status, reason, sig, event, payload, age, queued_before) ==
    [status |-> status, reason |-> reason, sig |-> sig, event |-> event,
     payload |-> payload, age |-> age, queued_before |-> queued_before]

NoResponse == Response("none", None, NoSignature, None, NoPayload, "n/a", 0)

\* The keys process_workflow_failure reads with [] that the payload lacks.
AbsentKeys(payload) ==
    payload.missing
      \cup (IF payload.id = None THEN {"id"} ELSE {})
      \cup (IF payload.full_name = None THEN {"repository"} ELSE {})

\* A background task as add_task queues it: what it reads of its payload,
\* where it stands, and what it has done so far.
NewItem(payload) ==
    [run_id |-> payload.id, absent |-> AbsentKeys(payload),
     pc |-> "queued", outcome |-> "none", trace |-> <<>>, returned |-> <<>>,
     has_errors |-> FALSE, can_fix |-> "unset", temp_dir |-> FALSE, repo_path |-> FALSE]

\* The tasks that have not finished.
Live(bag) == [ item \in { x \in DOMAIN bag : x.pc # "done" } |-> bag[item] ]

\* The event loop's thread is free to run a handler or a task: no task is
\* inside the synchronous client.messages.create (claude.py:131), which
\* returns only when the reply is there and awaits nothing.
LoopFree == \A item \in BagToSet(items) : item.pc # "analyze_failure"

----------------------------------------------------------------------------
(* History read by the properties; the program keeps no such record. *)

\* The times at which run_id was accepted (a task queued for it).
AcceptTimes(run_id) ==
    { a[2] : a \in { b \in BagToSet(accepted) : b[1] = run_id } }

Latest(times) == CHOOSE t \in times : \A u \in times : u <= t

\* How long ago, at time now, run_id was last accepted.
Age(run_id, now) ==
    IF AcceptTimes(run_id) = {} THEN "never"
    ELSE IF now - Latest(AcceptTimes(run_id)) <= CACHE_TTL_SECONDS THEN "within"
    ELSE "expired"

----------------------------------------------------------------------------
(* webhook/handler.py: github_webhook *)

webhook_tail_purging_first(sig, before, event, payload, cache, now, allowed) ==
    LET repo_full_name == IF payload.full_name = None THEN "" ELSE payload.full_name
        run_id == payload.id
        swept  == cleanup_cache(cache, now)
        step   == dedup(swept, run_id, now)
        age    == Age(run_id, now)
        Out(status, reason, seen, c, q, a) ==
            [resp |-> Response(status, reason, sig, event, seen, a, before),
             cache |-> c, queued |-> q]
    IN  IF event # "workflow_run"
        THEN Out("ignored", "not a workflow_run event", NoPayload, swept, FALSE, "n/a")
        ELSE IF payload.action # "completed" \/ payload.conclusion # "failure"
        THEN Out("ignored", "action, conclusion", payload, swept, FALSE, "n/a")
        ELSE IF ~is_repo_allowed(allowed, repo_full_name)
        THEN Out("ignored", "repository not allowed", payload, swept, FALSE, "n/a")
        ELSE IF step.duplicate
        THEN Out("ignored", "duplicate", payload, step.cache, FALSE, age)
        ELSE Out("accepted", run_id, payload, step.cache, TRUE, age)

\* Lines 146-180, which run without suspension once request.json() has
\* returned: the filters, the dedup step and the queueing.  The result is the
\* response, the cache afterwards and whether a task is queued.
webhook_tail(sig, before, event, payload, cache, now, allowed) ==
    LET repo_full_name == IF payload.full_name = None THEN "" ELSE payload.full_name
        run_id == payload.id
        swept  == cleanup_cache(cache, now)
        step   == dedup(swept, run_id, now)
        age    == Age(run_id, now)
        Out(status, reason, seen, c, q, a) ==
            [resp |-> Response(status, reason, sig, event, seen, a, before),
             cache |-> c, queued |-> q]
    IN  IF event # "workflow_run"
        THEN Out("ignored", "not a workflow_run event", NoPayload, cache, FALSE, "n/a")
        ELSE IF payload.action # "completed" \/ payload.conclusion # "failure"
        THEN Out("ignored", "action, conclusion", payload, cache, FALSE, "n/a")
        ELSE IF ~is_repo_allowed(allowed, repo_full_name)
        THEN Out("ignored", "repository not allowed", payload, cache, FALSE, "n/a")
        ELSE IF step.duplicate
        THEN Out("ignored", "duplicate", payload, step.cache, FALSE, age)
        ELSE Out("accepted", run_id, payload, step.cache, TRUE, age)

\* A delivery arrives; the handler runs up to `await request.body()`.
Receive ==
    /\ LoopFree
    /\ nReq < MaxRequests
    /\ nReq' = nReq + 1
    /\ nBody' = nBody + 1
    /\ items' = Live(items)
    /\ resp' = NoResponse
    /\ UNCHANGED <<clock, ticks, allowed_repos, processed_runs, atJson, accepted>>
    /\ UNCHANGED analysed

\* request.body() returns: the signature check, then `await request.json()`.
BodyRead ==
    /\ LoopFree
    /\ nBody > 0
    /\ nBody' = nBody - 1
    /\ \E sig \in Signatures :
         LET validation == validate_github_signature(Body, sig, Secret)
         IN
         IF validation.raised # None
         THEN /\ resp' = Response("500", validation.raised, sig, None, NoPayload,
                                  "n/a", 0)
              /\ UNCHANGED atJson
         ELSE IF ~validation.result
         THEN /\ resp' = Response("401", "Invalid signature", sig, None, NoPayload,
                                  "n/a", 0)
              /\ UNCHANGED atJson
         ELSE /\ atJson' = atJson (+) SetToBag({<<sig, BagCardinality(accepted)>>})
              /\ resp' = NoResponse
    /\ items' = Live(items)
    /\ UNCHANGED <<clock, ticks, allowed_repos, processed_runs, nReq, accepted>>
    /\ UNCHANGED analysed

\* request.json() returns: the rest of the handler, to its return.
JsonRead ==
    \E waiting \in BagToSet(atJson) :
      /\ LoopFree
      /\ atJson' = atJson (-) SetToBag({waiting})
      /\ \E out \in { webhook_tail(waiting[1], waiting[2], event, payload,
                                     processed_runs, clock, allowed_repos) :
                          event \in Events, payload \in Payloads } :
           /\ resp' = out.resp
           /\ processed_runs' = out.cache
           /\ IF out.queued
              THEN /\ items' = Live(items) (+) SetToBag({NewItem(out.resp.payload)})
                   /\ accepted' = accepted (+) SetToBag({<<out.resp.payload.id, clock>>})
              ELSE /\ items' = Live(items)
                   /\ UNCHANGED accepted
      /\ UNCHANGED <<clock, ticks, allowed_repos, nReq, nBody>>
      /\ UNCHANGED analysed

\* Time passes.  Only the age of the cache's entries matters to the program,
\* so the clock is followed from the first recorded run on.
Tick ==
    /\ ticks < MaxTicks
    /\ DOMAIN processed_runs # {}
    /\ ticks' = ticks + 1
    /\ \E d \in ClockSteps : clock' = clock + d
    /\ items' = Live(items)
    /\ resp' = NoResponse
    /\ UNCHANGED <<allowed_repos, processed_runs, nReq, nBody, atJson, accepted>>
    /\ UNCHANGED analysed

----------------------------------------------------------------------------
(* webhook/handler.py: process_workflow_failure, one background task *)

\* What the awaited collaborators can do, as far as their callers can tell.

\* _send_slack_message: the POST succeeds, fails with an httpx.HTTPError
\* (transport error, timeout, raise_for_status), or something that is no
\* HTTPError is raised (httpx.InvalidURL, an OSError building the client).
SlackOutcomes == {"sent", "HTTPError", "other exception"}

\* fetch_workflow_logs followed by parse_error_logs: gh fails, or the logs
\* parse to no error, or to at least one.
FetchOutcomes == {"gh failed", "no errors", "errors"}

\* clone_repository: git clone fails, or it succeeds (the checkout's result
\* changes nothing).
CloneOutcomes == {"clone failed", "cloned"}

\* analyze_failure: an anthropic.APIError, another exception (an empty or
\* non-text reply), or a decoded reply with can_fix false or true.
AnalyzeOutcomes == {"APIError", "other exception", "cannot fix", "can fix"}

\* apply_fix writing the changes
WriteOutcomes == {"written", "OSError"}

\* _validate_changes: which project marker the working copy holds
Markers == {"none", "pyproject.toml", "package.json"}

\* the formatter subprocesses
ValidateOutcomes == {"ran", "FileNotFoundError", "other exception"}

\* create_fix_pr
PublishOutcomes == {"pr_url", "raised"}

\* slack.py, _send_slack_message: only httpx.HTTPError is caught.
slack_raises(outcome) == outcome = "other exception"

\* claude.py, analyze_failure: only anthropic.APIError is caught.
analyze_raises(outcome) == outcome = "other exception"

\* The FixResult's can_fix of an analysis that returned.
can_fix_of(outcome) == outcome = "can fix"

\* fixer.py: only FileNotFoundError is caught around the subprocesses.
validate_raises(outcome) == outcome = "other exception"

\* The task awaits (or runs) `stage`.
Call(item, stage) ==
    [item EXCEPT !.pc = stage, !.trace = Append(@, stage)]

\* The latest stage called has returned or raised.
Returned(item, how) ==
    [item EXCEPT !.returned = Append(@, how)]

\* The task is over.
Done(item, outcome) ==
    [item EXCEPT !.pc = "done", !.outcome = outcome]

fail_and_retry(item) == [item EXCEPT !.pc = "queued"]

\* `except Exception`: log, and the task ends.
Fail(item) == Done(item, "FAILED")

\* `finally: shutil.rmtree(repo_path, ignore_errors=True)`
rmtree_repo_path(item) == [item EXCEPT !.repo_path = FALSE]

parse_gate_open(has_errors) == TRUE

\* `if not parsed_errors.errors: return` -- whether the task goes on
parse_gate(has_errors) == has_errors

can_fix_gate_open(can_fix) == TRUE

\* `if not fix_result.can_fix: return` -- whether the task goes on
can_fix_gate(can_fix) == can_fix

\* Lines 48-63: the payload's fields are read; the first four reads are
\* outside the try block, that of html_url is inside it.
start_task(item) ==
    IF item.absent \cap {"id", "repository", "head_branch", "head_sha"} # {}
    THEN Done(item, "RAISED")
    ELSE IF "html_url" \in item.absent
    THEN Fail(item)
    ELSE Call(item, "send_failure_notification")

\* Lines 58-66
after_failure_notification(item, slack) ==
    IF slack_raises(slack)
    THEN Fail(Returned(item, "raised"))
    ELSE Call(Returned(item, "ok"), "fetch_workflow_logs")

\* Lines 66-74; clone_repository runs to its first await, past mkdtemp.
after_fetch(item, fetch) ==
    IF fetch = "gh failed"
    THEN Fail(Returned(item, "raised"))
    ELSE LET has_errors == fetch = "errors"
             parsed == [Returned(Call(Returned(item, "ok"), "parse_error_logs"), "ok")
                          EXCEPT !.has_errors = has_errors]
         IN  IF ~parse_gate(has_errors)
             THEN Done(parsed, "NO_ERRORS")
             ELSE [Call(parsed, "clone_repository") EXCEPT !.temp_dir = TRUE]

\* Lines 91-97
call_publish(item) == Call(Returned(item, "ok"), "create_fix_pr")

\* Lines 74-80 of handler.py and 105-131 of claude.py.  analyze_failure
\* never yields to the loop: get_relevant_files awaits nothing and the
\* Anthropic client is the synchronous one, so the task is inside
\* client.messages.create, and the loop's thread with it, until the reply.
after_clone(item, clone) ==
    IF clone = "clone failed"
    THEN Fail(Returned(item, "raised"))
    ELSE Call([Returned(item, "ok") EXCEPT !.repo_path = TRUE], "analyze_failure")

\* Lines 131-163 of claude.py and 80-91 of handler.py; apply_fix yields only
\* when a formatter is started.
after_analysis(item, analysis, write, marker) ==
    IF analyze_raises(analysis)
    THEN Fail(rmtree_repo_path(Returned(item, "raised")))
    ELSE LET can_fix  == can_fix_of(analysis)
             analyzed == [Returned(item, "ok") EXCEPT
                            !.can_fix = IF can_fix THEN "true" ELSE "false"]
         IN  IF ~can_fix_gate(can_fix)
             THEN Done(rmtree_repo_path(analyzed), "NOT_FIXABLE")
             ELSE LET applying == Call(analyzed, "apply_fix")
                  IN  IF write = "OSError"
                      THEN Fail(rmtree_repo_path(Returned(applying, "raised")))
                      ELSE IF marker = "none"
                      THEN call_publish(applying)
                      ELSE [applying EXCEPT !.pc = "validate"]

\* fixer.py lines 46-115, then handler.py lines 91-97
after_validate(item, validate) ==
    IF validate_raises(validate)
    THEN Fail(rmtree_repo_path(Returned(item, "raised")))
    ELSE call_publish(item)

\* Lines 91-105
after_publish(item, publish) ==
    IF publish = "raised"
    THEN Fail(rmtree_repo_path(Returned(item, "raised")))
    ELSE Call(Returned(item, "ok"), "send_pr_notification")

\* Lines 100-116
after_pr_notification(item, slack) ==
    IF slack_raises(slack)
    THEN Fail(rmtree_repo_path(Returned(item, "raised")))
    ELSE Done(rmtree_repo_path(Returned(item, "ok")), "PUBLISHED")

\* A step of one task changes that task and nothing else.
Step(item, after) ==
    /\ items' = (Live(items) (-) SetToBag({item})) (+) SetToBag({after})
    /\ resp' = NoResponse
    /\ UNCHANGED <<clock, ticks, allowed_repos, processed_runs, nReq, nBody, atJson, accepted>>
    /\ UNCHANGED analysed

\* The tasks suspended at `stage`
At(stage) == { item \in BagToSet(items) : item.pc = stage }

\* The response is sent and the queued task starts.
Start ==
    /\ LoopFree
    /\ \E item \in At("queued") : Step(item, start_task(item))

NotifyFailureReturns ==
    /\ LoopFree
    /\ \E item \in At("send_failure_notification"), slack \in SlackOutcomes :
          Step(item, after_failure_notification(item, slack))

FetchReturns ==
    /\ LoopFree
    /\ \E item \in At("fetch_workflow_logs"), fetch \in FetchOutcomes :
          Step(item, after_fetch(item, fetch))

CloneReturns ==
    /\ LoopFree
    /\ \E item \in At("clone_repository"), clone \in CloneOutcomes :
          Step(item, after_clone(item, clone))

\* client.messages.create returns or raises; the task runs on to its next
\* await or to its end.
AnalyzeReturns ==
    \E item \in At("analyze_failure") :
       \E after \in { after_analysis(item, analysis, write, marker) :
                         analysis \in AnalyzeOutcomes, write \in WriteOutcomes,
                         marker \in Markers } :
          Step(item, after)

ValidateReturns ==
    /\ LoopFree
    /\ \E item \in At("validate"), validate \in ValidateOutcomes :
          Step(item, after_validate(item, validate))

PublishReturns ==
    /\ LoopFree
    /\ \E item \in At("create_fix_pr"), publish \in PublishOutcomes :
          Step(item, after_publish(item, publish))

NotifyPrReturns ==
    /\ LoopFree
    /\ \E item \in At("send_pr_notification"), slack \in SlackOutcomes :
          Step(item, after_pr_notification(item, slack))

----------------------------------------------------------------------------
(* analysis/parser.py *)

\* client.messages.create has not been called.
NoReply == [kind |-> "not called"]

\* lines of a log text
MaxLines == 2

\* sys.int_info.default_max_str_digits: int() of a longer digit string raises
INT_MAX_STR_DIGITS == 4300

\* `errors[:10]`
GENERIC_LIMIT == 10

\* PATTERNS, in the dict's iteration order: tool and position in its list
PATTERNS ==
    << <<"pyright", 1>>, <<"mypy", 1>>, <<"ruff", 1>>, <<"eslint", 1>>,
       <<"typescript", 1>>, <<"pytest", 1>>, <<"pytest", 2>>, <<"jest", 1>> >>

\* the four error_indicators of _extract_generic_errors, by position
ErrorIndicators == 1..4

\* A digit string as \d+ captures it: `zeros` leading zeros, then `digits`.
\* The empty string stands for a group the pattern does not have.
Numeral(zeros, digits) == [zeros |-> zeros, digits |-> digits]

NoNumeral == Numeral(0, <<>>)

\* The digit strings of the lines below; the last is 4301 characters long.
Ten == Numeral(0, <<1, 0>>)
Five == Numeral(0, <<5>>)
Twenty == Numeral(0, <<2, 0>>)
TooLong == Numeral(INT_MAX_STR_DIGITS, <<1>>)

\* One line of the log, by what the patterns make of it: the tool pattern it
\* matches with the named groups captured (None for a group the pattern lacks),
\* or the generic indicator it matches with its group 1, or neither.
\* Every pattern is anchored at both ends of a line.
Line(pattern, file, line, col, msg, code, indicator, detail) ==
    [pattern |-> pattern, file |-> file, line |-> line, col |-> col, msg |-> msg,
     code |-> code, indicator |-> indicator, detail |-> detail]

NoPattern == <<>>

ToolLine(pattern, file, line, col, msg, code) ==
    Line(pattern, file, line, col, msg, code, 0, None)

GenericLine(indicator, detail) ==
    Line(NoPattern, None, NoNumeral, NoNumeral, None, None, indicator, detail)

\* "All checks passed!"
PlainLine == GenericLine(0, None)

\* The lines logs are made of: those of tests/unit/test_parser.py, one per
\* pattern, a mypy line whose line number has 4301 digits, and a plain line.
LogLines ==
    { ToolLine(<<"pyright", 1>>, "src/main.py", Ten, Five, "Argument of type", None),
      ToolLine(<<"pyright", 1>>, "src/main.py", Twenty, Five, "Type error 2", None),
      ToolLine(<<"mypy", 1>>, "src/main.py", Ten, NoNumeral, "Incompatible types", None),
      ToolLine(<<"mypy", 1>>, "src/main.py", TooLong, NoNumeral, "Incompatible types", None),
      ToolLine(<<"ruff", 1>>, "src/utils.py", Ten, Five, "Import block is un-sorted", "I001"),
      ToolLine(<<"eslint", 1>>, "src/app.ts", Ten, Five, "Unexpected any", None),
      ToolLine(<<"typescript", 1>>, "src/App.tsx", Ten, Five, "Type 'string'", "TS2322"),
      ToolLine(<<"pytest", 1>>, "tests/test_api.py", NoNumeral, NoNumeral, None, None),
      ToolLine(<<"pytest", 2>>, "tests/test_api.py", Ten, NoNumeral, None, None),
      ToolLine(<<"jest", 1>>, "src/foo.test.ts", NoNumeral, NoNumeral, None, None),
      GenericLine(1, "mismatched types"),
      GenericLine(2, "Cannot find module 'lodash'"),
      GenericLine(3, "not a git repository"),
      GenericLine(4, "code ENOENT"),
      PlainLine }

\* lines of a log text made of generic-indicator lines only
MaxGenericLines == 15

Digit == <<"0", "1", "2", "3", "4", "5", "6", "7", "8", "9">>

\* "message 07": what the n-th line of such a text says after its indicator
Numbered(n) == "message " \o Digit[((n \div 10) % 10) + 1] \o Digit[(n % 10) + 1]

\* Logs of CI steps that print one generic error per line: the first `split`
\* lines carry one indicator, the others a second one.
GenericTexts ==
    { [ n \in 1..len |-> GenericLine(IF n <= split THEN first ELSE second,
                                     Numbered(n)) ] :
        len \in 0..MaxGenericLines, split \in 0..MaxGenericLines,
        first \in ErrorIndicators, second \in ErrorIndicators }

\* The texts parse_error_logs is given: up to MaxLines lines of any kind, or
\* generic lines only; the empty text is the one of no line.
LogTexts == UNION { [1..n -> LogLines] : n \in 0..MaxLines } \cup GenericTexts

\* dict.get(key, default) of a groupdict
Get(group, default) == IF group = None THEN default ELSE group

\* `a or b` of two strings
Or(a, b) == IF a # "" THEN a ELSE b

RECURSIVE DecimalValue(_)
DecimalValue(digits) ==
    IF digits = <<>> THEN 0
    ELSE 10 * DecimalValue(SubSeq(digits, 1, Len(digits) - 1)) + digits[Len(digits)]

\* int(s) of a digit string raises ValueError when s is longer than the limit.
int_raises(numeral) == numeral.zeros + Len(numeral.digits) > INT_MAX_STR_DIGITS

\* `int(groups[k]) if groups.get(k) else None`; an Optional[int] is the
\* empty tuple or the tuple of the number.
optional_int(numeral) ==
    IF numeral = NoNumeral THEN <<>> ELSE << DecimalValue(numeral.digits) >>

finditer_last_first(pattern, text) ==
    LET matches == SelectSeq(text, LAMBDA line : line.pattern = pattern)
    IN  [ n \in 1..Len(matches) |-> matches[Len(matches) + 1 - n] ]

\* pattern.finditer(logs): the matches of one pattern, in text order
finditer(pattern, text) == SelectSeq(text, LAMBDA line : line.pattern = pattern)

\* ParsedError(...) of lines 115-121 (its context, a slice of the text around
\* the match, is left out)
ParsedError(error_type, message, file_path, line_number, column) ==
    [error_type |-> error_type, message |-> message, file_path |-> file_path,
     line_number |-> line_number, column |-> column]

detect_first(detected_type, error_type) ==
    IF detected_type = "unknown" THEN error_type ELSE detected_type

\* `detected_type = error_type`, line 129
detect(detected_type, error_type) == error_type

\* Lines 112-129: the matches of one pattern, from the n-th on.  `so_far` is
\* the exception raised, the errors appended and the type detected up to here.
RECURSIVE add_matches(_, _, _, _)
add_matches(so_far, error_type, matches, n) ==
    IF n > Len(matches) \/ so_far.raised # None THEN so_far
    ELSE LET groups == matches[n]
         IN  IF int_raises(groups.line) \/ int_raises(groups.col)
             THEN [so_far EXCEPT !.raised = "ValueError"]
             ELSE add_matches(
                    [so_far EXCEPT
                       !.errors = Append(@, ParsedError(
                                     error_type,
                                     Or(Get(groups.msg, ""), Get(groups.code, "")),
                                     groups.file,
                                     optional_int(groups.line),
                                     optional_int(groups.col))),
                       !.detected_type = detect(@, error_type)],
                    error_type, matches, n + 1)

\* Lines 109-129: the patterns from the k-th on
RECURSIVE try_patterns(_, _, _)
try_patterns(so_far, text, k) ==
    IF k > Len(PATTERNS) \/ so_far.raised # None THEN so_far
    ELSE try_patterns(
           add_matches(so_far, PATTERNS[k][1], finditer(PATTERNS[k], text), 1),
           text, k + 1)

generic_matches_untyped(indicator, text) ==
    LET matches == SelectSeq(text, LAMBDA line : line.indicator = indicator)
    IN  [ n \in 1..Len(matches) |->
            ParsedError("unknown", matches[n].detail, None, <<>>, <<>>) ]

\* an indicator's matches in text order, each a generic ParsedError
generic_matches(indicator, text) ==
    LET matches == SelectSeq(text, LAMBDA line : line.indicator = indicator)
    IN  [ n \in 1..Len(matches) |->
            ParsedError("generic", matches[n].detail, None, <<>>, <<>>) ]

\* the generic errors of the indicators from the k-th on
RECURSIVE generic_from(_, _)
generic_from(k, text) ==
    IF k \notin ErrorIndicators THEN <<>>
    ELSE generic_matches(k, text) \o generic_from(k + 1, text)

\* `return errors[:10]`
generic_limit(errors) ==
    SubSeq(errors, 1, IF Len(errors) < GENERIC_LIMIT THEN Len(errors) ELSE GENERIC_LIMIT)

\* _extract_generic_errors
extract_generic_errors(text) == generic_limit(generic_from(1, text))

\* `error_type=detected_type if errors else "unknown"`, line 138
overall_type(errors, detected_type) ==
    IF errors # <<>> THEN detected_type ELSE "unknown"

\* The lists that list(s) may give for a set s: its elements, once each, in
\* the order the set happens to iterate in.
Orderings(s) ==
    { seq \in [1..Cardinality(s) -> s] : \A x \in s : \E n \in DOMAIN seq : seq[n] = x }

\* `if e.file_path`
has_file_path(error) == error.file_path # None /\ error.file_path # ""

affected_files_repeated(errors) ==
    LET with_path == SelectSeq(errors, has_file_path)
    IN  { [ n \in 1..Len(with_path) |-> with_path[n].file_path ] }

\* ParsedErrors.affected_files: the lists the property may return
affected_files(errors) ==
    Orderings({ errors[n].file_path : n \in { m \in 1..Len(errors) : has_file_path(errors[m]) } })

\* parse_error_logs: the ParsedErrors returned, or the exception raised
parse_error_logs(text) ==
    LET found == try_patterns([raised |-> None, errors |-> <<>>,
                               detected_type |-> "unknown"], text, 1)
    IN  IF found.raised # None
        THEN [raised |-> found.raised]
        ELSE LET errors == IF found.errors = <<>>
                           THEN extract_generic_errors(text)
                           ELSE found.errors
             IN  [raised |-> None, errors |-> errors,
                  error_type |-> overall_type(errors, found.detected_type)]

\* The ParsedErrors with the list its affected_files gave when read (line 143)
Read(result, files) ==
    [raised |-> None, errors |-> result.errors, error_type |-> result.error_type,
     affected_files |-> files]

\* parse_error_logs is called with the text.
ParseErrorLogs ==
    /\ parsed_errors = NotCalled
    /\ LET result == parse_error_logs(logs)
       IN  IF result.raised # None
           THEN parsed_errors' = result
           ELSE \E files \in affected_files(result.errors) :
                   parsed_errors' = Read(result, files)
    /\ UNCHANGED main
    /\ UNCHANGED <<logs, response, fix_result, applier_input>>
    /\ UNCHANGED checked
    /\ UNCHANGED <<applied, workspace>>

----------------------------------------------------------------------------
(* analysis/claude.py *)

\* tokens of a small reply text
MaxReplyLen == 3
\* entries of the "changes" list of a reply
MaxChanges == 2

\* Values of JSON and of Python after json.loads
Str(s) == [type |-> "str", s |-> s]
Bool(b) == [type |-> "bool", b |-> b]
Number(n) == [type |-> "number", n |-> n]
Null == [type |-> "null"]
Array(elements) == [type |-> "array", items |-> elements]
Object(members) == [type |-> "object", members |-> members]

NoMembers == [ key \in {} |-> Null ]

\* members[key] = value
Put(members, key, value) ==
    [ k \in DOMAIN members \cup {key} |-> IF k = key THEN value ELSE members[k] ]

\* bool(value)
Truthy(value) ==
    CASE value.type = "str"    -> value.s # ""
      [] value.type = "bool"   -> value.b
      [] value.type = "number" -> value.n \notin {"0", "0.0"}
      [] value.type = "null"   -> FALSE
      [] value.type = "array"  -> value.items # <<>>
      [] value.type = "object" -> DOMAIN value.members # {}

\* A text is a sequence of tokens.  A token is a code fence, the word json,
\* white space, prose, or a token of JSON: an opening or closing brace or
\* bracket or a scalar, an opening one or a scalar together with the key and
\* colon before it when it is a member of an object.  Commas go unwritten.
Tok(t, key, val) == [t |-> t, key |-> key, val |-> val]

FENCE == Tok("fence", "", Null)
TAG == Tok("json", "", Null)
WS == Tok("ws", "", Null)
PROSE == Tok("prose", "", Null)
LBRACE == Tok("{", "", Null)
RBRACE == Tok("}", "", Null)
RBRACKET == Tok("]", "", Null)

\* Tokens are told apart by their kind t; "fence" is the code fence ```.
\* str.find(sub, start) for a one-token sub: the first position from start
\* on, 0 (Python: -1) when there is none.  Positions count from 1.
find(text, t, start) ==
    IF \E n \in start..Len(text) : text[n].t = t
    THEN CHOOSE n \in start..Len(text) :
           text[n].t = t /\ \A m \in start..(n - 1) : text[m].t # t
    ELSE 0

\* str.rindex of a one-token sub, 0 when str.rindex raises ValueError
rindex(text, t) ==
    IF \E n \in 1..Len(text) : text[n].t = t
    THEN CHOOSE n \in 1..Len(text) :
           text[n].t = t /\ \A m \in (n + 1)..Len(text) : text[m].t # t
    ELSE 0

\* response_text.find("```json"), 0 when it is not in the text
find_json_fence(text) ==
    IF \E n \in 1..(Len(text) - 1) : text[n] = FENCE /\ text[n + 1] = TAG
    THEN CHOOSE n \in 1..(Len(text) - 1) :
           /\ text[n] = FENCE /\ text[n + 1] = TAG
           /\ \A m \in 1..(n - 1) : ~(text[m] = FENCE /\ text[m + 1] = TAG)
    ELSE 0

\* text[start:end], both positions counted from 1
slice(text, start, end) == SubSeq(text, start, end - 1)

RECURSIVE lstrip(_)
lstrip(text) ==
    IF text # <<>> /\ text[1] = WS THEN lstrip(Tail(text)) ELSE text

RECURSIVE rstrip(_)
rstrip(text) ==
    IF text # <<>> /\ text[Len(text)] = WS
    THEN rstrip(SubSeq(text, 1, Len(text) - 1))
    ELSE text

\* str.strip()
strip(text) == rstrip(lstrip(text))

\* An Optional[str]: the empty tuple for None, else the tuple of the string.
NoMatch == <<>>

\* Lines 173-176: the block after the first ```json, up to the next fence
json_fence_block(text) ==
    LET start == find_json_fence(text) + 2
        end   == find(text, "fence", start)
    IN  IF end > start THEN << strip(slice(text, start, end)) >> ELSE NoMatch

\* Lines 178-181: the block after the first fence, up to the next
fence_block(text) ==
    LET start == find(text, "fence", 1) + 1
        end   == find(text, "fence", start)
    IN  IF end > start THEN << strip(slice(text, start, end)) >> ELSE NoMatch

\* Lines 184-189: from the first "{" to the last "}"; the key before the
\* first brace, if it has one, is cut off with the text before it.
raw_json(text) ==
    LET start == find(text, "{", 1)
        end   == rindex(text, "}") + 1
    IN  IF start = 0 \/ end = 1 THEN NoMatch
        ELSE IF end <= start THEN << <<>> >>
        ELSE << <<LBRACE>> \o slice(text, start + 1, end) >>

\* Lines 169-189
extract_json(text) ==
    IF find_json_fence(text) # 0 THEN json_fence_block(text)
    ELSE IF find(text, "fence", 1) # 0 THEN fence_block(text)
    ELSE raw_json(text)

no_match_never(json_match) == FALSE

\* `not json_match`
no_match(json_match) == json_match = NoMatch \/ json_match[1] = <<>>

----------------------------------------------------------------------------
(* json.loads *)

JSONDecodeError == [ok |-> FALSE, next |-> 0, value |-> Null]

Decoded(value, next) == [ok |-> TRUE, next |-> next, value |-> value]

RECURSIVE parse_value(_, _), parse_items(_, _, _), parse_members(_, _, _)

\* the value that starts at the n-th token
parse_value(text, n) ==
    IF n > Len(text) THEN JSONDecodeError
    ELSE CASE text[n].t = "scalar" -> Decoded(text[n].val, n + 1)
           [] text[n].t = "["      -> parse_items(text, n + 1, <<>>)
           [] text[n].t = "{"      -> parse_members(text, n + 1, NoMembers)
           [] OTHER                -> JSONDecodeError

\* the rest of an array, from the n-th token on
parse_items(text, n, elements) ==
    IF n > Len(text) THEN JSONDecodeError
    ELSE IF text[n].t = "]" THEN Decoded(Array(elements), n + 1)
    ELSE IF text[n].key # "" THEN JSONDecodeError
    ELSE LET item == parse_value(text, n)
         IN  IF ~item.ok THEN JSONDecodeError
             ELSE parse_items(text, item.next, Append(elements, item.value))

\* the rest of an object, from the n-th token on; of two members with one
\* key the later stays
parse_members(text, n, members) ==
    IF n > Len(text) THEN JSONDecodeError
    ELSE IF text[n].t = "}" THEN Decoded(Object(members), n + 1)
    ELSE IF text[n].key = "" THEN JSONDecodeError
    ELSE LET member == parse_value(text, n)
         IN  IF ~member.ok THEN JSONDecodeError
             ELSE parse_members(text, member.next,
                                Put(members, text[n].key, member.value))

\* json.loads(s): white space between tokens counts for nothing, and the
\* text must be one value and nothing else
json_loads(text) ==
    LET tokens == SelectSeq(text, LAMBDA tok : tok # WS)
        parsed == parse_value(tokens, 1)
    IN  IF tokens = <<>> THEN JSONDecodeError
        ELSE IF tokens[1].key # "" THEN JSONDecodeError
        ELSE IF parsed.ok /\ parsed.next = Len(tokens) + 1 THEN parsed
        ELSE JSONDecodeError

----------------------------------------------------------------------------
(* _parse_claude_response and analyze_failure *)

\* source_files, as get_relevant_files returned them
source_files == [ path \in {"src/main.py"} |-> "count = 0" ]

FileChange(file_path, original_content, new_content) ==
    [file_path |-> file_path, original_content |-> original_content,
     new_content |-> new_content]

FixResult(can_fix, description, changes, confidence, analysis) ==
    [can_fix |-> can_fix, description |-> description, changes |-> changes,
     confidence |-> confidence, analysis |-> analysis]

\* A call that returned `result`, and one that `exception` left.

\* data.get(key, default): only a dict has it
has_get(data) == data.type = "object"

get(data, key, default) ==
    IF key \in DOMAIN data.members THEN data.members[key] ELSE default

\* What `for change_data in value` goes through: the items of a list, the
\* characters of a string, the keys of a dict; the rest is not iterable.
iterable(value) == value.type \in {"array", "str", "object"}

iterate(value) ==
    CASE value.type = "array"  -> value.items
      [] value.type = "str"    -> IF value.s = "" THEN <<>> ELSE << Str("c") >>
      [] value.type = "object" -> IF DOMAIN value.members = {} THEN <<>>
                                  ELSE << Str("key") >>

\* source_files.get(file_path, ""): the key must be hashable
hashable(value) == value.type \notin {"array", "object"}

original_of(file_path) ==
    IF file_path.type = "str" /\ file_path.s \in DOMAIN source_files
    THEN Str(source_files[file_path.s])
    ELSE Str("")

keep_change_with_path(file_path, new_content) == Truthy(file_path)

\* `if file_path and new_content`
keep_change(file_path, new_content) == Truthy(file_path) /\ Truthy(new_content)

\* Lines 211-223, from the n-th entry on
RECURSIVE build_changes(_, _, _)
build_changes(entries, n, changes) ==
    IF n > Len(entries) THEN Return(changes)
    ELSE LET change_data == entries[n]
         IN  IF ~has_get(change_data) THEN Raise("AttributeError")
             ELSE LET file_path   == get(change_data, "file_path", Str(""))
                      new_content == get(change_data, "new_content", Str(""))
                  IN  IF ~keep_change(file_path, new_content)
                      THEN build_changes(entries, n + 1, changes)
                      ELSE IF ~hashable(file_path) THEN Raise("TypeError")
                      ELSE build_changes(entries, n + 1,
                             Append(changes, FileChange(file_path,
                                                        original_of(file_path),
                                                        new_content)))

\* The FixResult of lines 193-197 and 203-207, and of 159-163
negative_result(analysis) == FixResult(Bool(FALSE), Str(""), <<>>, Number("0.0"), Str(analysis))

\* Lines 209-231
build_result(data) ==
    IF ~has_get(data) THEN Raise("AttributeError")
    ELSE LET value == get(data, "changes", Array(<<>>))
         IN  IF ~iterable(value) THEN Raise("TypeError")
             ELSE LET built == build_changes(iterate(value), 1, <<>>)
                  IN  IF built.raised # None THEN built
                      ELSE Return(FixResult(get(data, "can_fix", Bool(FALSE)),
                                            get(data, "description", Str("")),
                                            built.result,
                                            get(data, "confidence", Number("0.0")),
                                            get(data, "analysis", Str(""))))

\* _parse_claude_response; json.loads(None) raises TypeError
parse_claude_response(response_text) ==
    LET json_match == extract_json(response_text)
    IN  IF no_match(json_match)
        THEN Return(negative_result("Failed to parse Claude response"))
        ELSE IF json_match = NoMatch THEN Raise("TypeError")
        ELSE LET data == json_loads(json_match[1])
             IN  IF ~data.ok
                 THEN Return(negative_result("JSON parse error"))
                 ELSE build_result(data.value)

\* What client.messages.create does: it raises an anthropic.APIError (of the
\* connection, of a timeout, of an error status), or returns a message with
\* its content blocks.
APIError(detail) == [kind |-> "APIError", detail |-> detail, content |-> <<>>]
Message(content) == [kind |-> "Message", detail |-> "", content |-> content]

TextBlock(text) == [type |-> "text", text |-> text]
ToolUseBlock == [type |-> "tool_use", text |-> <<>>]

\* Lines 157-163
api_error(exception) == Return(negative_result("API error: " \o exception.detail))

\* analyze_failure from line 132 on
analyze_failure(reply) ==
    IF reply.kind = "APIError" THEN api_error(reply)
    ELSE IF reply.content = <<>> THEN Raise("IndexError")
    ELSE IF reply.content[1].type # "text" THEN Raise("ValueError")
    ELSE parse_claude_response(reply.content[1].text)

\* analyze_failure is called and client.messages.create does as `response` says.
AnalyzeFailure ==
    /\ response # NoReply
    /\ fix_result = NotCalled
    /\ fix_result' = analyze_failure(response)
    /\ UNCHANGED main
    /\ UNCHANGED <<logs, parsed_errors, response, applier_input>>
    /\ UNCHANGED checked
    /\ UNCHANGED <<applied, workspace>>

goes_on_if_confident(result) ==
    can_fix_gate(Truthy(result.can_fix)) /\ Truthy(result.confidence)

\* handler.py line 83, `if not fix_result.can_fix: return`: whether the task
\* goes on with this FixResult.  No other field of it is read.
goes_on(result) == can_fix_gate(Truthy(result.can_fix))

\* handler.py lines 83-88: past the can_fix gate, apply_fix is called with
\* the changes of the FixResult.
CallApplyFix ==
    /\ fix_result.raised = None
    /\ applier_input = <<>>
    /\ goes_on(fix_result.result)
    /\ applier_input' = << fix_result.result.changes >>
    /\ UNCHANGED main
    /\ UNCHANGED <<logs, parsed_errors, response, fix_result>>
    /\ UNCHANGED checked
    /\ UNCHANGED <<applied, workspace>>

----------------------------------------------------------------------------
(* analysis/fixer.py, and the lines of handler.py that follow apply_fix *)

\* File paths that lead out of the working copy: an absolute one, and one
\* that climbs from <temporary directory>/<name>/<repository> to the same file
OutsidePaths == {"/tmp/shared.py", "../../shared.py"}

\* The file paths the changes of a fix name.  The checkout has the file
\* src/main.py, so the third one lies under a file.
ChangePaths == {"src/main.py", "src/utils.py", "src/main.py/fix.py"} \cup OutsidePaths

\* file_path.parent
Parent(path) ==
    IF path = "src/main.py/fix.py" THEN "src/main.py"
    ELSE IF path \in OutsidePaths THEN "/tmp"
    ELSE "src"

\* The change lists apply_fix is given: what _parse_claude_response keeps,
\* entries with a file path and a new content.
FixChanges ==
    UNION { [1..n -> { FileChange(Str(path), original_of(Str(path)), Str("count = 1")) :
                          path \in ChangePaths }] : n \in 0..MaxChanges }

\* The files of the working copy as clone_repository left it: those of the
\* repository and the marker of its kind of project, if it has one.
Checkout(marker) ==
    [ path \in DOMAIN source_files \cup (IF marker = "none" THEN {} ELSE {marker}) |->
        IF path \in DOMAIN source_files THEN source_files[path] ELSE "" ]

\* The task of handler.py at line 88, apply_fix just called
Applying(marker) ==
    [pc |-> "apply_fix", outcome |-> "none", trace |-> <<"apply_fix">>,
     returned |-> <<>>, repo_path |-> TRUE, files |-> Checkout(marker),
     written |-> 0, raised |-> None, validation |-> <<>>]

\* file_path.write_text(new_content)
write_text(files, path, content) ==
    [ file \in DOMAIN files \cup {path} |-> IF file = path THEN content ELSE files[file] ]

\* A write_text that fails after open() has created or truncated the file
torn_write(files, path) == write_text(files, path, "")

\* Lines 22-30, from the n-th change on.  mkdir(parents=True, exist_ok=True)
\* raises FileExistsError when the parent is a file; apart from that the
\* filesystem may give out (disk full, permission denied) at the change
\* `fails_at`, if that is one, with the file opened (`torn`) or not.
RECURSIVE write_changes(_, _, _, _, _)
write_changes(so_far, changes, n, fails_at, torn) ==
    IF n > Len(changes) THEN so_far
    ELSE LET path == changes[n].file_path.s
         IN  IF Parent(path) \in DOMAIN so_far.files
             THEN [so_far EXCEPT !.raised = "FileExistsError"]
             ELSE IF n = fails_at
             THEN [so_far EXCEPT !.raised = "OSError",
                                 !.files = IF torn THEN torn_write(@, path) ELSE @]
             ELSE write_changes(
                    [so_far EXCEPT
                       !.files = write_text(@, path, changes[n].new_content.s),
                       !.written = @ + 1],
                    changes, n + 1, fails_at, torn)

leaves_apply_fix_caught(raised) == FALSE

\* Nothing in apply_fix catches an exception of lines 22-30.
leaves_apply_fix(raised) == raised # None

\* What a formatter subprocess can do: create_subprocess_exec raises
\* FileNotFoundError or another OSError (PermissionError, exec format error),
\* or the tool runs and exits with 0 or with a failure.
ToolOutcomes == {"FileNotFoundError", "other exception", "exit 0", "exit 1"}

\* the formatters, by the line that starts them
Tools == {"ruff format", "ruff check", "prettier", "eslint"}

\* _validate_changes, lines 43-49, up to the first subprocess
validate_changes(task) ==
    IF "pyproject.toml" \in DOMAIN task.files THEN [task EXCEPT !.pc = "ruff format"]
    ELSE IF "package.json" \in DOMAIN task.files THEN [task EXCEPT !.pc = "prettier"]
    ELSE call_publish(task)

\* Lines 20-33 of fixer.py and, on an exception, 107-116 of handler.py
apply_fix(task, changes, fails_at, torn) ==
    LET done == write_changes([files |-> task.files, written |-> 0, raised |-> None],
                              changes, 1, fails_at, torn)
        after == [task EXCEPT !.files = done.files, !.written = done.written,
                              !.raised = done.raised]
    IN  IF leaves_apply_fix(done.raised)
        THEN Fail(rmtree_repo_path(Returned(after, "raised")))
        ELSE validate_changes(after)

\* Lines 52-115: a formatter's subprocess has ended or could not be started.
\* _validate_python_project has one try block around both of its tools,
\* _validate_node_project one around each.
after_tool(task, tool, outcome) ==
    LET ran == [task EXCEPT !.validation = Append(@, <<tool, outcome>>)]
    IN  IF validate_raises(outcome)
        THEN Fail(rmtree_repo_path(Returned(ran, "raised")))
        ELSE IF tool = "ruff format" /\ outcome # "FileNotFoundError"
        THEN [ran EXCEPT !.pc = "ruff check"]
        ELSE IF tool = "prettier"
        THEN [ran EXCEPT !.pc = "eslint"]
        ELSE call_publish(ran)

\* The step of a task alone in the program
Alone ==
    /\ UNCHANGED main
    /\ UNCHANGED <<logs, parsed_errors, response, fix_result, applier_input>>
    /\ UNCHANGED checked
    /\ UNCHANGED workspace

\* apply_fix runs to its first await or to its end.
ApplyFix ==
    /\ applied # NotCalled
    /\ applied.pc = "apply_fix"
    /\ \E after \in { apply_fix(applied, applier_input[1], fails_at, torn) :
                        fails_at \in 0..Len(applier_input[1]), torn \in BOOLEAN } :
          applied' = after
    /\ Alone

ToolReturns ==
    /\ applied # NotCalled
    /\ applied.pc \in Tools
    /\ \E outcome \in ToolOutcomes : applied' = after_tool(applied, applied.pc, outcome)
    /\ Alone

PublishFix ==
    /\ applied # NotCalled
    /\ applied.pc = "create_fix_pr"
    /\ \E publish \in PublishOutcomes : applied' = after_publish(applied, publish)
    /\ Alone

NotifyFix ==
    /\ applied # NotCalled
    /\ applied.pc = "send_pr_notification"
    /\ \E slack \in SlackOutcomes : applied' = after_pr_notification(applied, slack)
    /\ Alone

----------------------------------------------------------------------------
(* github/repo.py, analysis/fixer.py, webhook/handler.py: the working copies
   of the tasks in flight *)

\* tasks in flight at once
MaxWorkItems == 2

WorkItems == 1..MaxWorkItems

\* The names mkdtemp(prefix="ci-guardian-") can give to a new directory,
\* by their random part
TempNames == 1..(MaxWorkItems + 1)

\* A task before clone_repository
NoCopy == [pc |-> "clone_repository", temp_dir |-> 0, written |-> {}, deleted |-> {}]

\* A place in the filesystem: under the repo_path of the task whose temporary
\* directory is `temp_dir`, or (temp_dir 0) under the root
Location(temp_dir, path) == <<temp_dir, path>>

\* `repo_path / change.file_path` as the filesystem resolves it: an absolute
\* file_path replaces repo_path, and ".." components climb out of it.
resolve(temp_dir, path) ==
    IF path \in OutsidePaths
    THEN Location(0, "/tmp/shared.py")
    ELSE Location(temp_dir, path)

\* The paths whose file apply_fix created or changed
touched(before, after) ==
    { path \in DOMAIN after : path \notin DOMAIN before \/ after[path] # before[path] }

\* repo.py lines 27-29: mkdtemp makes a directory that did not exist.
MakeTempDir ==
    /\ workspace # NotCalled
    /\ \E w \in WorkItems, name \in TempNames \ workspace.tmp :
         /\ workspace.item[w].pc = "clone_repository"
         /\ workspace' = [workspace EXCEPT
                            !.tmp = @ \cup {name},
                            !.item[w] = [@ EXCEPT !.pc = "git clone", !.temp_dir = name]]
    /\ UNCHANGED main
    /\ UNCHANGED <<logs, parsed_errors, response, fix_result, applier_input>>
    /\ UNCHANGED checked
    /\ UNCHANGED applied

\* repo.py lines 60-92 and handler.py lines 74-88: git clone ends; on success
\* the task goes on to apply_fix (by way of analyze_failure).
Cloned ==
    /\ workspace # NotCalled
    /\ \E w \in WorkItems, clone \in CloneOutcomes :
         /\ workspace.item[w].pc = "git clone"
         /\ workspace' = [workspace EXCEPT
                            !.item[w].pc = IF clone = "cloned" THEN "apply_fix" ELSE "done"]
    /\ UNCHANGED main
    /\ UNCHANGED <<logs, parsed_errors, response, fix_result, applier_input>>
    /\ UNCHANGED checked
    /\ UNCHANGED applied

\* fixer.py lines 22-30: the changes are written; then the task awaits
\* create_fix_pr, or, after an exception, runs handler.py lines 109-116.
WriteFix ==
    /\ workspace # NotCalled
    /\ \E w \in WorkItems, changes \in FixChanges :
         \E fails_at \in 0..Len(changes), torn \in BOOLEAN :
           LET temp_dir == workspace.item[w].temp_dir
               before == Checkout("none")
               done == write_changes([files |-> before, written |-> 0, raised |-> None],
                                     changes, 1, fails_at, torn)
               places == { resolve(temp_dir, path) : path \in touched(before, done.files) }
           IN  /\ workspace.item[w].pc = "apply_fix"
               /\ workspace' = [workspace EXCEPT
                     !.item[w] = IF leaves_apply_fix(done.raised)
                                 THEN [@ EXCEPT !.pc = "done", !.written = places,
                                                !.deleted = {temp_dir}]
                                 ELSE [@ EXCEPT !.pc = "create_fix_pr", !.written = places]]
    /\ UNCHANGED main
    /\ UNCHANGED <<logs, parsed_errors, response, fix_result, applier_input>>
    /\ UNCHANGED checked
    /\ UNCHANGED applied

\* handler.py lines 91-116: the rest of the task, to the rmtree of repo_path
Cleanup ==
    /\ workspace # NotCalled
    /\ \E w \in WorkItems :
         /\ workspace.item[w].pc = "create_fix_pr"
         /\ workspace' = [workspace EXCEPT
                            !.item[w] = [@ EXCEPT !.pc = "done",
                                                  !.deleted = {workspace.item[w].temp_dir}]]
    /\ UNCHANGED main
    /\ UNCHANGED <<logs, parsed_errors, response, fix_result, applier_input>>
    /\ UNCHANGED checked
    /\ UNCHANGED applied

----------------------------------------------------------------------------
(* The replies of the oracle *)

\* A key the oracle leaves out
Absent == [type |-> "absent"]

PutIf(members, key, value) ==
    IF value = Absent THEN members ELSE Put(members, key, value)

\* An entry of "changes", as the prompt asks for it
Entry(file_path, new_content) ==
    Object(PutIf(PutIf(NoMembers, "file_path", file_path), "new_content", new_content))

\* The object the prompt asks for (ANALYSIS_PROMPT, Response Format)
Reply(can_fix, confidence, analysis, description, changes) ==
    Object(PutIf(PutIf(PutIf(PutIf(PutIf(NoMembers,
        "can_fix", can_fix), "confidence", confidence), "analysis", analysis),
        "description", description), "changes", changes))

FullEntry == Entry(Str("src/main.py"), Str("count = 1"))

Entries ==
    { Entry(file_path, new_content) :
        file_path \in {Absent, Str(""), Str("src/main.py")},
        new_content \in {Absent, Null, Str(""), Str("count = 1")} }

ChangeLists == UNION { [1..n -> Entries] : n \in 0..MaxChanges }

\* What the oracle may mean to say: the object asked for with any list of
\* changes, and that object with a key missing or of another type, an empty
\* object, and values that are no object.
ReplyData ==
    { Reply(Bool(TRUE), Number("0.9"), Str("why"), Str("fix"), Array(changes)) :
        changes \in ChangeLists } \cup
    { Reply(Bool(TRUE), Number("0.0"), Str("why"), Str("fix"), Array(<<FullEntry>>)),
      Reply(Bool(TRUE), Number("0.9"), Absent, Str("fix"), Array(<<FullEntry>>)),
      Reply(Bool(FALSE), Absent, Str("logic bug"), Absent, Absent),
      Reply(Absent, Absent, Absent, Absent, Absent),
      Reply(Bool(TRUE), Number("0.9"), Str("why"), Str("fix"), Null),
      Reply(Bool(TRUE), Number("0.9"), Str("why"), Str("fix"), Str("none")),
      Reply(Bool(TRUE), Number("0.9"), Str("why"), Str("fix"),
            Array(<<Str("src/main.py")>>)),
      Array(<<Number("1")>>),
      Str("sorry") }

\* The keys in the order the prompt lists them
KeyOrder ==
    <<"can_fix", "confidence", "analysis", "description", "changes",
      "file_path", "new_content">>

\* The text of a JSON value (json.dumps, without its commas)
RECURSIVE render(_, _), render_items(_, _), render_members(_, _)

render(key, value) ==
    CASE value.type = "array" ->
           <<Tok("[", key, Null)>> \o render_items(value.items, 1) \o <<RBRACKET>>
      [] value.type = "object" ->
           <<Tok("{", key, Null)>> \o render_members(value.members, 1) \o <<RBRACE>>
      [] OTHER -> <<Tok("scalar", key, value)>>

render_items(elements, n) ==
    IF n > Len(elements) THEN <<>>
    ELSE render("", elements[n]) \o render_items(elements, n + 1)

render_members(members, k) ==
    IF k > Len(KeyOrder) THEN <<>>
    ELSE (IF KeyOrder[k] \in DOMAIN members
          THEN render(KeyOrder[k], members[KeyOrder[k]])
          ELSE <<>>) \o render_members(members, k + 1)

\* The ways a reply carries its JSON: in a fence tagged json after some
\* prose, in an untagged fence, bare between prose, in a fence that never
\* closes (tagged or not), bare after an empty tagged fence, bare after a
\* fenced block of prose, and in a tagged fence after an untagged one.
Carriers(body) ==
    { <<PROSE, FENCE, TAG, WS>> \o body \o <<WS, FENCE>>,
      <<FENCE, WS>> \o body \o <<WS, FENCE, PROSE>>,
      <<PROSE>> \o body \o <<PROSE>>,
      <<FENCE, TAG, WS>> \o body,
      <<FENCE, WS>> \o body,
      <<FENCE, TAG, FENCE, WS>> \o body,
      <<FENCE, PROSE, FENCE, WS>> \o body,
      <<FENCE, PROSE, FENCE, WS, FENCE, TAG, WS>> \o body \o <<WS, FENCE>> }

\* The tokens of the small texts
ReplyTokens ==
    {FENCE, TAG, WS, PROSE, LBRACE, RBRACE, Tok("scalar", "can_fix", Bool(TRUE))}

\* The reply texts: a value in a carrier, and every text of up to
\* MaxReplyLen tokens.
ReplyTexts ==
    UNION { Carriers(render("", data)) : data \in ReplyData }
      \cup UNION { [1..n -> ReplyTokens] : n \in 0..MaxReplyLen }

Responses ==
    { APIError("overloaded_error"), Message(<<>>), Message(<<ToolUseBlock>>) }
      \cup { Message(<<TextBlock(text)>>) : text \in ReplyTexts }

----------------------------------------------------------------------------

\* No delivery has arrived.
NoDelivery ==
    /\ clock = 0
    /\ ticks = 0
    /\ processed_runs = <<>>
    /\ nReq = 0
    /\ nBody = 0
    /\ atJson = EmptyBag
    /\ items = EmptyBag
    /\ resp = NoResponse
    /\ accepted = EmptyBag

\* The analysis functions are not followed on their own.
NoAnalysis ==
    /\ logs = <<>>
    /\ parsed_errors = NotCalled
    /\ response = NoReply
    /\ fix_result = NotCalled
    /\ applier_input = <<>>

NoValidation ==
    /\ signed = <<>>
    /\ valid = NotCalled

NoFix == applied = NotCalled /\ workspace = NotCalled

Init ==
    /\ NoDelivery
    /\ allowed_repos \in {{}, {"owner/repo"}}
    /\ NoAnalysis
    /\ NoValidation
    /\ NoFix

Next ==
    \/ Receive
    \/ BodyRead
    \/ JsonRead
    \/ Tick
    \/ Start
    \/ NotifyFailureReturns
    \/ FetchReturns
    \/ CloneReturns
    \/ AnalyzeReturns
    \/ ValidateReturns
    \/ PublishReturns
    \/ NotifyPrReturns

Spec == Init /\ [][Next]_vars

\* Every external call returns or raises in the end, and the loop runs a
\* task that is ready: a queued task is started, and each awaited call of a
\* task comes back.  Nothing is assumed about deliveries or the clock.
CallsReturn ==
    /\ WF_vars(Start)
    /\ WF_vars(NotifyFailureReturns)
    /\ WF_vars(FetchReturns)
    /\ WF_vars(CloneReturns)
    /\ WF_vars(AnalyzeReturns)
    /\ WF_vars(ValidateReturns)
    /\ WF_vars(PublishReturns)
    /\ WF_vars(NotifyPrReturns)

LiveSpec == Init /\ [][Next]_vars /\ CallsReturn

\* parse_error_logs on its own: any text, parsed once
ParserInit ==
    /\ NoDelivery
    /\ allowed_repos = {}
    /\ logs \in LogTexts
    /\ parsed_errors = NotCalled
    /\ response = NoReply
    /\ fix_result = NotCalled
    /\ applier_input = <<>>
    /\ NoValidation
    /\ NoFix

ParserNext == ParseErrorLogs

ParserSpec == ParserInit /\ [][ParserNext]_vars

\* analyze_failure on its own, with the call of apply_fix that may follow:
\* any outcome of the oracle's call, analysed once
AdapterInit ==
    /\ NoDelivery
    /\ allowed_repos = {}
    /\ logs = <<>>
    /\ parsed_errors = NotCalled
    /\ response \in Responses
    /\ fix_result = NotCalled
    /\ applier_input = <<>>
    /\ NoValidation
    /\ NoFix

AdapterNext ==
    \/ AnalyzeFailure
    \/ CallApplyFix

AdapterSpec == AdapterInit /\ [][AdapterNext]_vars

\* validate_github_signature on its own: any call, made once
ValidatorInit ==
    /\ NoDelivery
    /\ allowed_repos = {}
    /\ NoAnalysis
    /\ signed \in { <<call>> : call \in Calls }
    /\ valid = NotCalled
    /\ NoFix

ValidatorNext == ValidateSignature

ValidatorSpec == ValidatorInit /\ [][ValidatorNext]_vars

\* apply_fix and what follows it in the task: any change list, any checkout
FixerInit ==
    /\ NoDelivery
    /\ allowed_repos = {}
    /\ logs = <<>>
    /\ parsed_errors = NotCalled
    /\ response = NoReply
    /\ fix_result = NotCalled
    /\ applier_input \in { <<changes>> : changes \in FixChanges }
    /\ NoValidation
    /\ applied \in { Applying(marker) : marker \in Markers }
    /\ workspace = NotCalled

FixerNext ==
    \/ ApplyFix
    \/ ToolReturns
    \/ PublishFix
    \/ NotifyFix

FixerSpec == FixerInit /\ [][FixerNext]_vars

\* The working copies of tasks in flight together.  Directories that earlier
\* tasks left behind may be there already.
WorkdirInit ==
    /\ NoDelivery
    /\ allowed_repos = {}
    /\ NoAnalysis
    /\ NoValidation
    /\ applied = NotCalled
    /\ workspace \in { [tmp |-> left, item |-> [w \in WorkItems |-> NoCopy]] :
                          left \in {{}, {1}} }

WorkdirNext ==
    \/ MakeTempDir
    \/ Cloned
    \/ WriteFix
    \/ Cleanup

WorkdirSpec == WorkdirInit /\ [][WorkdirNext]_vars

----------------------------------------------------------------------------
(* Vocabulary of the properties *)

Tasks == BagToSet(items)

Finished == { item \in Tasks : item.pc = "done" }

Stages(item) == { item.trace[n] : n \in 1..Len(item.trace) }

\* The stages of one task, in the order of process_workflow_failure's text.
StageOrder ==
    << "send_failure_notification", "fetch_workflow_logs", "parse_error_logs",
       "clone_repository", "analyze_failure", "apply_fix", "create_fix_pr",
       "send_pr_notification" >>

IsPrefix(s, t) == Len(s) <= Len(t) /\ \A n \in 1..Len(s) : s[n] = t[n]

\* The signature header is the HMAC-SHA256 of the body under the secret.
SignatureGood(sig) ==
    /\ sig # NoSignature
    /\ sig[1] = "sha256="
    /\ sig[2] = HmacHex(Secret, Body)

\* The tasks queued for run_id no longer than a TTL ago.
QueuedWithinTtl(run_id) ==
    { a \in BagToSet(accepted) : a[1] = run_id /\ clock - a[2] <= CACHE_TTL_SECONDS }

Sum(bag, keys) == BagCardinality([ k \in keys |-> bag[k] ])

\* The step queues a task.
QueuesTask == BagCardinality(accepted') > BagCardinality(accepted)

----------------------------------------------------------------------------
(* C1..C10 *)

\* C1: a request that reaches the dedup step is answered 'duplicate' exactly
\* when its run id was last accepted no longer than the TTL (3600 s) ago; it
\* is accepted when the run id was never accepted or was last accepted more
\* than a TTL ago, and the cache then records the run id with the time of
\* this acceptance; an accepted run id stays recorded, with that time, for
\* as long as its age is within the TTL.
C1_DedupWindow ==
    /\ resp.reason = "duplicate" => resp.age = "within"
    /\ resp.status = "accepted" =>
         /\ resp.age \in {"never", "expired"}
         /\ resp.payload.id \in DOMAIN processed_runs
         /\ processed_runs[resp.payload.id] = clock
    /\ \A run_id \in RunIds :
         Age(run_id, clock) = "within" =>
            /\ run_id \in DOMAIN processed_runs
            /\ processed_runs[run_id] = Latest(AcceptTimes(run_id))

\* A run id is accepted again one second after its TTL has elapsed.
C1_Witness ==
    /\ resp.status = "accepted"
    /\ resp.age = "expired"
    /\ \E t \in AcceptTimes(resp.payload.id) : clock - t = CACHE_TTL_SECONDS + 1

\* C2: at most one task is queued per run id per TTL window: no two tasks
\* for the same run id are queued at times at most a TTL apart, and every
\* task there is was queued by an accepted request (a duplicate starts none,
\* so it makes no external call).
C2_OnePipelinePerWindow ==
    /\ \A a \in BagToSet(accepted) : accepted[a] = 1
    /\ \A a, b \in BagToSet(accepted) :
         (a # b /\ a[1] = b[1]) =>
            (a[2] - b[2] > CACHE_TTL_SECONDS \/ b[2] - a[2] > CACHE_TTL_SECONDS)
    /\ BagCardinality(Live(items)) <= BagCardinality(accepted)
    /\ \A item \in Tasks : AcceptTimes(item.run_id) # {}

\* The second submission of a run id within the window is answered
\* 'duplicate', and the run's only task is the first submission's.
C2_Witness ==
    /\ resp.reason = "duplicate"
    /\ resp.payload.id = "12345"
    /\ BagCardinality(accepted) = 1
    /\ \E item \in Tasks : item.run_id = "12345"

\* After a dedup step exactly one task has been queued for its run id
\* within the last TTL, whatever handler invocations and tasks are in flight.
ExactlyOneAccepted ==
    /\ \A run_id \in RunIds : Sum(accepted, QueuedWithinTtl(run_id)) <= 1
    /\ resp.age # "n/a" => Sum(accepted, QueuedWithinTtl(resp.payload.id)) = 1

\* The cache changes only in the step in which request.json() returns, and
\* that one step purges, checks and inserts: afterwards no entry is older
\* than the TTL and the request's run id is recorded.  No step of a task
\* changes the cache.
DedupInOneStep ==
    processed_runs' # processed_runs =>
       /\ BagCardinality(atJson') < BagCardinality(atJson)
       /\ resp'.age # "n/a"
       /\ \A run_id \in DOMAIN processed_runs' :
             clock - processed_runs'[run_id] <= CACHE_TTL_SECONDS
       /\ resp'.payload.id \in DOMAIN processed_runs'

\* C3: under every interleaving of handler invocations and background tasks
\* the purge, the membership check and the insert are one step, of the
\* deliveries of one run id within the TTL exactly one is accepted, and the
\* tasks leave the cache alone.
C3_AtomicDedup == [][DedupInOneStep]_vars /\ []ExactlyOneAccepted

\* A delivery that was already in the handler, past validation, before the
\* run's task was queued is answered 'duplicate' while that task is under way.
C3_Witness ==
    /\ resp.reason = "duplicate"
    /\ resp.queued_before = 0
    /\ \E item \in Tasks :
          /\ item.run_id = resp.payload.id
          /\ item.pc \notin {"queued", "done"}

\* Every response states the filter that produced it.
FilterGate ==
    /\ resp.status \in {"none", "401", "ignored", "accepted"}
    /\ resp.status = "401" <=> (resp # NoResponse /\ ~SignatureGood(resp.sig))
    /\ resp.reason = "not a workflow_run event" => resp.event # "workflow_run"
    /\ resp.reason = "action, conclusion" =>
          (resp.payload.action # "completed" \/ resp.payload.conclusion # "failure")
    /\ resp.reason = "repository not allowed" =>
          (allowed_repos # {} /\ resp.payload.full_name \notin allowed_repos)
    /\ resp.status = "accepted" =>
          /\ SignatureGood(resp.sig)
          /\ resp.event = "workflow_run"
          /\ resp.payload.action = "completed"
          /\ resp.payload.conclusion = "failure"
          /\ (allowed_repos = {} \/ resp.payload.full_name \in allowed_repos)

C5_StageOrder ==
    \A item \in Tasks :
       /\ IsPrefix(item.trace, StageOrder)
       /\ Len(item.returned) \in {Len(item.trace) - 1, Len(item.trace)}
       /\ \A n \in 1..(Len(item.trace) - 1) : item.returned[n] = "ok"
       /\ "clone_repository" \in Stages(item) => item.has_errors
       /\ "create_fix_pr" \in Stages(item) => item.can_fix = "true"

\* A task has gone through all the stages and ended PUBLISHED.
C5_Witness ==
    \E item \in Finished : item.outcome = "PUBLISHED" /\ item.trace = StageOrder

\* C6: no exception propagates out of process_workflow_failure: every
\* failure, reading the payload's fields included, ends the task FAILED.
C6_AllFailuresCaught ==
    \A item \in Finished : item.outcome # "RAISED"

\* C7: when a task that started the clone stage ends, no directory made for
\* its working copy remains.
C7_WorkingCopyRemoved ==
    \A item \in Finished :
       "clone_repository" \in Stages(item) => (~item.temp_dir /\ ~item.repo_path)

\* C8: a FixResult with can_fix false ends the task NOT_FIXABLE at once:
\* apply_fix is not called, nothing is published and no fix-published
\* notification is sent.
C8_CanFixGate ==
    \A item \in Tasks :
       item.can_fix = "false" =>
          /\ item.pc = "done" /\ item.outcome = "NOT_FIXABLE"
          /\ Stages(item) \cap {"apply_fix", "create_fix_pr", "send_pr_notification"} = {}

\* The oracle declined and the task ended NOT_FIXABLE.
C8_Witness ==
    \E item \in Finished : item.can_fix = "false" /\ item.outcome = "NOT_FIXABLE"

\* C9: no stage of a task is called twice, and the run id of a task that
\* ended FAILED is still in the cache, with the time of its acceptance, while
\* that acceptance is no older than the TTL.
C9_NoRetry ==
    \A item \in Tasks :
       /\ \A m, n \in 1..Len(item.trace) : item.trace[m] = item.trace[n] => m = n
       /\ (item.outcome = "FAILED" /\ Age(item.run_id, clock) = "within") =>
             /\ item.run_id \in DOMAIN processed_runs
             /\ processed_runs[item.run_id] = Latest(AcceptTimes(item.run_id))

\* A task ended FAILED in the publish stage and its run id is still recorded.
C9_Witness ==
    \E item \in Finished :
       /\ item.outcome = "FAILED"
       /\ item.pc = "done"
       /\ "create_fix_pr" \in Stages(item)
       /\ item.run_id \in DOMAIN processed_runs

\* C10: however a notification call ends, the task goes on: after the
\* failure-detected notification the logs are fetched, and after the
\* fix-published notification the task ends PUBLISHED.
C10_NotificationNeverAborts ==
    \A item \in Tasks :
       /\ Len(item.returned) >= 1 => "fetch_workflow_logs" \in Stages(item)
       /\ Len(item.returned) = Len(StageOrder) => item.outcome = "PUBLISHED"

----------------------------------------------------------------------------
(* C11..C20 *)

\* The notifications a task has called for, besides the failure-detected
\* one every task starts with.
Notified(item) ==
    Stages(item) \cap {"send_pr_notification", "send_error_notification"}

\* C11: a task that ends NOT_FIXABLE has sent the fix-not-possible
\* notification (send_error_notification), and a task that ends PUBLISHED has
\* sent the fix-published notification (send_pr_notification).
C11_TerminalNotifications ==
    \A item \in Finished :
       /\ item.outcome = "NOT_FIXABLE" => "send_error_notification" \in Notified(item)
       /\ item.outcome = "PUBLISHED" => "send_pr_notification" \in Notified(item)

----------------------------------------------------------------------------
(* Vocabulary of the properties of analyze_failure *)

\* analyze_failure was called and is over.
Analysed == fix_result # NotCalled

\* It returned a FixResult.
GaveResult == fix_result.raised = None

\* The oracle's call returned a message whose first block is text.
TextReply ==
    /\ response.kind = "Message"
    /\ response.content # <<>>
    /\ response.content[1].type = "text"

ReplyText == response.content[1].text

\* The oracle's call failed: it raised, or its reply has no text to decode.
ServiceFailed == response.kind = "APIError" \/ (response.kind = "Message" /\ ~TextReply)

NonEmptyStr(value) == value.type = "str" /\ value.s # ""

\* The block is there and json.loads decodes it.
Parseable(json_match) ==
    /\ json_match # NoMatch
    /\ json_match[1] # <<>>
    /\ json_loads(json_match[1]).ok

\* The three strategies, each on its own
FromJsonFence(text) ==
    IF find_json_fence(text) # 0 THEN json_fence_block(text) ELSE NoMatch

FromAnyFence(text) ==
    IF \E n \in 1..Len(text) : text[n] = FENCE THEN fence_block(text) ELSE NoMatch

FromBraces(text) == raw_json(text)

\* The block of the first strategy, in the order (a), (b), (c), whose block
\* is parseable; NoMatch when none is.
FirstParseable(text) ==
    IF Parseable(FromJsonFence(text)) THEN FromJsonFence(text)
    ELSE IF Parseable(FromAnyFence(text)) THEN FromAnyFence(text)
    ELSE IF Parseable(FromBraces(text)) THEN FromBraces(text)
    ELSE NoMatch

\* The entries of "changes" in the data the code decoded, in reply order
DecodedEntries(text) ==
    LET json_match == extract_json(text)
    IN  IF ~Parseable(json_match) THEN <<>>
        ELSE LET data == json_loads(json_match[1]).value
             IN  IF data.type = "object" /\ "changes" \in DOMAIN data.members
                    /\ data.members["changes"].type = "array"
                 THEN data.members["changes"].items
                 ELSE <<>>

\* The entry is an object whose member `key` is a non-empty string.
Populated(entry, key) ==
    /\ entry.type = "object"
    /\ key \in DOMAIN entry.members
    /\ NonEmptyStr(entry.members[key])

\* path and content of each change, in order
PathAndContent(changes) ==
    [ n \in 1..Len(changes) |-> <<changes[n].file_path, changes[n].new_content>> ]

\* C12: analyze_failure propagates no failure of the oracle's call: an API
\* error (transport errors included) and a reply whose content is empty or
\* not text each end in a returned FixResult with can_fix false whose
\* analysis carries the error.
C12_NeverPropagates ==
    (Analysed /\ ServiceFailed) =>
       /\ GaveResult
       /\ fix_result.result.can_fix = Bool(FALSE)
       /\ NonEmptyStr(fix_result.result.analysis)
       /\ response.kind = "APIError" =>
             fix_result.result.analysis = Str("API error: " \o response.detail)

\* C13: decoding a reply text never raises: a FixResult is returned for every
\* text, and its can_fix is false whenever no block was extracted that
\* json.loads decodes.
C13_DecodingNeverRaises ==
    (Analysed /\ TextReply) =>
       /\ GaveResult
       /\ ~Parseable(extract_json(ReplyText)) =>
             fix_result.result.can_fix = Bool(FALSE)

\* C14: the extraction strategies (a) fence tagged json, (b) any fence,
\* (c) first "{" to last "}" are tried in this order until one yields a
\* parseable block, and the reply is decoded from that block; so a reply whose
\* fence is unterminated, empty or unparseable but which holds a parseable
\* brace-bounded object is decoded from that object.
C14_ExtractionChain ==
    (Analysed /\ TextReply /\ FirstParseable(ReplyText) # NoMatch) =>
       fix_result = build_result(json_loads(FirstParseable(ReplyText)[1]).value)

\* The text has no code fence.
NoFence(text) == \A n \in 1..Len(text) : text[n] # FENCE

\* The text has no "{", or no "}", or its last "}" is before its first "{".
NoBalancedBraces(text) ==
    \A open, close \in 1..Len(text) :
       (text[open].t = "{" /\ text[close].t = "}") => close < open

\* C15: a reply with no code fence and no balanced braces gives a FixResult
\* with can_fix false, a non-empty analysis and no changes, and raises nothing.
C15_NoFenceNoBraces ==
    (Analysed /\ TextReply /\ NoFence(ReplyText) /\ NoBalancedBraces(ReplyText)) =>
       /\ GaveResult
       /\ fix_result.result.can_fix = Bool(FALSE)
       /\ NonEmptyStr(fix_result.result.analysis)
       /\ fix_result.result.changes = <<>>

\* A reply whose only "}" is before its only "{" was answered.
C15_Witness ==
    /\ Analysed
    /\ TextReply
    /\ ReplyText = <<RBRACE, PROSE, LBRACE>>
    /\ GaveResult

\* C16: the changes of a FixResult are exactly the decoded entries that
\* have a non-empty file path and non-empty new content, in reply order, and
\* apply_fix is given these changes: none with an empty path or content.
C16_ChangeFiltering ==
    /\ (GaveResult /\ TextReply) =>
          PathAndContent(fix_result.result.changes)
             = LET kept == SelectSeq(DecodedEntries(ReplyText),
                              LAMBDA entry : /\ Populated(entry, "file_path")
                                             /\ Populated(entry, "new_content"))
               IN  [ n \in 1..Len(kept) |->
                       <<kept[n].members["file_path"], kept[n].members["new_content"]>> ]
    /\ applier_input # <<>> =>
          /\ applier_input[1] = fix_result.result.changes
          /\ \A n \in 1..Len(applier_input[1]) :
                /\ NonEmptyStr(applier_input[1][n].file_path)
                /\ NonEmptyStr(applier_input[1][n].new_content)

\* Of two entries decoded, the second with empty new content, apply_fix was
\* given the first alone.
C16_Witness ==
    /\ TextReply
    /\ applier_input # <<>>
    /\ Len(applier_input[1]) = 1
    /\ DecodedEntries(ReplyText)
          = << FullEntry, Entry(Str("src/main.py"), Str("")) >>

\* C17: every FixResult analyze_failure returns has a non-empty analysis.
C17_AnalysisPopulated ==
    GaveResult => NonEmptyStr(fix_result.result.analysis)

----------------------------------------------------------------------------
(* Vocabulary of the properties of parse_error_logs *)

\* The tools with a match in the text
ToolsMatched(text) ==
    { text[n].pattern[1] : n \in { m \in 1..Len(text) : text[m].pattern # NoPattern } }

\* The text has a line a generic indicator matches.
HasIndicator(text) == \E n \in 1..Len(text) : text[n].indicator \in ErrorIndicators

\* The tools in the order of the registry
Registry == <<"pyright", "mypy", "ruff", "eslint", "typescript", "pytest", "jest">>

RegistryPosition(tool) == CHOOSE n \in 1..Len(Registry) : Registry[n] = tool

\* parse_error_logs has returned a ParsedErrors.
Parsed == parsed_errors.raised = None

\* C18: the ParsedErrors returned for any text has error_type "unknown" if
\* and only if its errors are empty, the results of the generic fallback
\* included.
C18_UnknownIffEmpty ==
    Parsed => (parsed_errors.error_type = "unknown" <=> parsed_errors.errors = <<>>)

\* C19: when the text has matches of one or more tools, error_type is the
\* matching tool that is last in the registry's order (pyright, mypy, ruff,
\* eslint, typescript, pytest, jest), wherever in the text the matches are.
C19_LastMatchWins ==
    (Parsed /\ ToolsMatched(logs) # {}) =>
       /\ parsed_errors.error_type \in ToolsMatched(logs)
       /\ \A tool \in ToolsMatched(logs) :
             RegistryPosition(tool) <= RegistryPosition(parsed_errors.error_type)

\* A jest failure on the first line and a pyright error on the second: jest.
C19_Witness ==
    /\ Parsed
    /\ Len(logs) = 2
    /\ logs[1].pattern = <<"jest", 1>>
    /\ logs[2].pattern = <<"pyright", 1>>
    /\ parsed_errors.error_type = "jest"

\* The lines of the text that a generic indicator matches, in text order
IndicatorLines(text) ==
    SelectSeq(text, LAMBDA line : line.indicator \in ErrorIndicators)

\* The first n elements of a sequence, all of them when it has fewer
FirstN(seq, n) == SubSeq(seq, 1, IF Len(seq) < n THEN Len(seq) ELSE n)

\* The generic fallback ran: no tool pattern matched the text.
FallbackRan == Parsed /\ ToolsMatched(logs) = {}

\* C21: when the generic fallback runs, the errors are those of the first 10
\* lines of the text that any generic indicator matches, in the order of the
\* text (of all such lines when there are fewer than 10).
C21_FallbackFirstTenInTextOrder ==
    FallbackRan =>
       LET first == FirstN(IndicatorLines(logs), GENERIC_LIMIT)
       IN  parsed_errors.errors =
              [ n \in 1..Len(first) |->
                  ParsedError("generic", first[n].detail, None, <<>>, <<>>) ]

\* The positions of a list that hold the value
Occurrences(list, value) == { n \in 1..Len(list) : list[n] = value }

\* The file paths of the errors, None left out
FilePaths(errors) == { errors[n].file_path : n \in 1..Len(errors) } \ {None}

\* C22: affected_files holds every file path that occurs in errors exactly
\* once, however many errors name it, and holds nothing else; errors without
\* a file path add nothing to it.
C22_AffectedFilesUnique ==
    Parsed =>
       /\ \A file \in FilePaths(parsed_errors.errors) :
             Cardinality(Occurrences(parsed_errors.affected_files, file)) = 1
       /\ \A n \in 1..Len(parsed_errors.affected_files) :
             parsed_errors.affected_files[n] \in FilePaths(parsed_errors.errors)

\* Two pyright errors on src/main.py, at lines 10 and 20: the file is listed once.
C22_Witness ==
    /\ Parsed
    /\ Len(parsed_errors.errors) = 2
    /\ parsed_errors.errors[1].file_path = "src/main.py"
    /\ parsed_errors.errors[2].file_path = "src/main.py"
    /\ parsed_errors.errors[1].line_number # parsed_errors.errors[2].line_number
    /\ parsed_errors.affected_files = <<"src/main.py">>

\* The positions of the lines that a tool pattern matches
ToolMatches(text) == { n \in 1..Len(text) : text[n].pattern # NoPattern }

\* The match at position a comes before the one at position b: its tool is
\* earlier in the registry, or it is the same tool and its pattern is earlier
\* in the tool's list, or it is the same pattern and it is earlier in the text.
ComesBefore(text, a, b) ==
    LET tool_a == RegistryPosition(text[a].pattern[1])
        tool_b == RegistryPosition(text[b].pattern[1])
    IN  \/ tool_a < tool_b
        \/ tool_a = tool_b /\ text[a].pattern[2] < text[b].pattern[2]
        \/ text[a].pattern = text[b].pattern /\ a < b

\* The place in errors of the match at position a
PlaceOf(text, a) ==
    Cardinality({ b \in ToolMatches(text) : ComesBefore(text, b, a) }) + 1

\* The number a digit string stands for, if the pattern captured one
Captured(numeral) ==
    IF numeral = NoNumeral THEN <<>> ELSE << DecimalValue(numeral.digits) >>

\* The ParsedError of one match
ErrorOfMatch(line) ==
    [error_type |-> line.pattern[1],
     message |-> IF line.msg # None THEN line.msg
                 ELSE IF line.code # None THEN line.code ELSE "",
     file_path |-> line.file,
     line_number |-> Captured(line.line),
     column |-> Captured(line.col)]

\* C23: when a tool pattern matches, errors has one ParsedError for every
\* match and no other, ordered by tool in registry order, then by pattern in
\* the tool's list, then by place in the text; each has the tool's name, the
\* msg capture as message (the code capture when there is no msg) and the
\* file, line and column captured.  Equal matches are all kept.
C23_ErrorsInRegistryOrder ==
    (Parsed /\ ToolsMatched(logs) # {}) =>
       /\ Len(parsed_errors.errors) = Cardinality(ToolMatches(logs))
       /\ \A a \in ToolMatches(logs) :
             parsed_errors.errors[PlaceOf(logs, a)] = ErrorOfMatch(logs[a])

\* A pytest assertion line, then a ruff line: the ruff error comes first, with
\* the message and not the code, and the pytest error second.
C23_Witness ==
    /\ Parsed
    /\ Len(logs) = 2
    /\ logs[1].pattern = <<"pytest", 2>>
    /\ logs[2].pattern = <<"ruff", 1>>
    /\ Len(parsed_errors.errors) = 2
    /\ parsed_errors.errors[1] =
          ParsedError("ruff", "Import block is un-sorted", "src/utils.py", <<10>>, <<5>>)
    /\ parsed_errors.errors[2].error_type = "pytest"

\* C20: parse_error_logs returns a ParsedErrors for every text, and for the
\* empty text and for a text without tool match and without generic
\* indicator that result has no errors and error_type "unknown".
C20_NeverFails ==
    parsed_errors # NotCalled =>
       /\ Parsed
       /\ (ToolsMatched(logs) = {} /\ ~HasIndicator(logs)) =>
             (parsed_errors.errors = <<>> /\ parsed_errors.error_type = "unknown")

----------------------------------------------------------------------------
(* Vocabulary of the properties of validate_github_signature *)

\* validate_github_signature has been called.
Validated == valid # NotCalled

\* The signature is present, starts with "sha256=" and is "sha256=" followed
\* by the hex HMAC-SHA256 of the payload under the secret.
SignatureMatches(call) ==
    /\ call.signature # NoSignature
    /\ call.signature[1] = "sha256="
    /\ call.signature = <<"sha256=", HmacHex(call.secret, call.payload)>>

\* C24: validate_github_signature returns true if the signature is present,
\* starts with "sha256=" and is "sha256=" followed by the hex HMAC-SHA256 of
\* the payload under the secret, and returns false in every other case: no
\* signature, another prefix, another digest, the digest of another payload.
C24_SignatureValidIff ==
    Validated => valid = Return(SignatureMatches(signed[1]))

----------------------------------------------------------------------------
(* Vocabulary of the properties of apply_fix *)

\* apply_fix has ended, by returning or by an exception.
ApplyFixEnded == applied # NotCalled /\ applied.pc \notin {"apply_fix"} \cup Tools

\* An exception of the writes has ended apply_fix.
WriteFailed == applied # NotCalled /\ applied.raised # None

\* The stages the task has called
Called == { applied.trace[n] : n \in 1..Len(applied.trace) }

\* The working copy is as it was cloned.
Untouched ==
    \E marker \in Markers : applied.files = Checkout(marker)

\* C25: an exception raised while a change is written leaves apply_fix: the
\* stage ends by raising, no formatter is run, create_fix_pr and
\* send_pr_notification are not called, and the task ends FAILED.
C25_WriteFailurePropagates ==
    WriteFailed =>
       /\ applied.pc = "done" /\ applied.outcome = "FAILED"
       /\ applied.returned = <<"raised">>
       /\ applied.validation = <<>>
       /\ Called = {"apply_fix"}

\* The second of two writes failed and the task ended FAILED at once.
C25_Witness ==
    /\ WriteFailed
    /\ applied.raised = "OSError"
    /\ Len(applier_input[1]) = 2
    /\ applied.written = 1
    /\ applied.outcome = "FAILED"

\* C26: when apply_fix has ended, every change of the fix has been written
\* to the working copy or none has and the working copy is as cloned; and
\* create_fix_pr is called only when all have been written and the
\* validation pass is over.
C26_AppliedAtomically ==
    /\ ApplyFixEnded =>
          \/ applied.written = Len(applier_input[1])
          \/ applied.written = 0 /\ Untouched
    /\ (applied # NotCalled /\ "create_fix_pr" \in Called) =>
          /\ applied.written = Len(applier_input[1])
          /\ applied.pc \notin Tools

\* C27: once the changes are written the formatters change nothing of the
\* task's course: whether a tool is absent, cannot be started for another
\* reason or exits with a failure, apply_fix returns and create_fix_pr is
\* called.
C27_ValidationNeverAlters ==
    (ApplyFixEnded /\ ~WriteFailed) => "create_fix_pr" \in Called

----------------------------------------------------------------------------
(* Vocabulary of the properties of the event loop *)

\* The stages in which a task calls something outside the program: a
\* subprocess, the generation service, GitHub, Slack
ExternalCalls ==
    {"send_failure_notification", "fetch_workflow_logs", "clone_repository",
     "analyze_failure", "validate", "create_fix_pr", "send_pr_notification"}

\* Every handler and every task that has something to do can do it.
NothingBlocked ==
    /\ nReq < MaxRequests => ENABLED Receive
    /\ nBody > 0 => ENABLED BodyRead
    /\ BagToSet(atJson) # {} => ENABLED JsonRead
    /\ At("queued") # {} => ENABLED Start
    /\ At("send_failure_notification") # {} => ENABLED NotifyFailureReturns
    /\ At("fetch_workflow_logs") # {} => ENABLED FetchReturns
    /\ At("clone_repository") # {} => ENABLED CloneReturns
    /\ At("validate") # {} => ENABLED ValidateReturns
    /\ At("create_fix_pr") # {} => ENABLED PublishReturns
    /\ At("send_pr_notification") # {} => ENABLED NotifyPrReturns

\* C28: while a task waits on an external call (log fetch, clone, the
\* generation service, PR creation, a notification), a newly arriving
\* delivery can be received, a suspended handler can go on, and every other
\* task whose call has returned can take its next step.
C28_CallsBlockNothing ==
    \A item \in Tasks : item.pc \in ExternalCalls => NothingBlocked

----------------------------------------------------------------------------
(* Vocabulary of the properties of the payload's shape *)

\* The payload of a workflow_run event lacks workflow_run, or a field of it
\* that the pipeline reads, or the repository's name.
Malformed(payload) ==
    \/ payload.id = None
    \/ payload.full_name = None
    \/ payload.missing # {}

\* The handler has looked at the payload of the request it answered.
PayloadSeen == resp # NoResponse /\ resp.payload # NoPayload

\* C29: an event whose payload lacks workflow_run or a field the pipeline
\* needs (id, head_branch, head_sha, html_url, repository.full_name) is not
\* accepted, hence neither recorded in the cache nor queued: no task is ever
\* started on such a payload.
C29_ShapeErrorsRejected ==
    /\ (PayloadSeen /\ Malformed(resp.payload)) => resp.status # "accepted"
    /\ \A item \in Tasks : item.absent = {}

----------------------------------------------------------------------------
(* Vocabulary of the properties of the working copies *)

\* The tasks that have a working copy and have not ended
InFlight ==
    IF workspace = NotCalled THEN {}
    ELSE { w \in WorkItems : workspace.item[w].pc \notin {"clone_repository", "done"} }

\* The places a task has written, and those under a directory it has removed
Written(w) == workspace.item[w].written

Removes(w, place) == place[1] \in workspace.item[w].deleted

\* C30: two tasks in flight at the same time have different working-copy
\* directories, and no place in the filesystem that one task has written is
\* written or deleted by another task.
C30_DirectoriesNeverShared ==
    workspace # NotCalled =>
       /\ \A v, w \in InFlight :
             v # w => workspace.item[v].temp_dir # workspace.item[w].temp_dir
       /\ \A v, w \in WorkItems :
             v # w => \A place \in Written(v) :
                         place \notin Written(w) /\ ~Removes(w, place)

----------------------------------------------------------------------------
(* C31..C38 *)

\* C31: a dedup check that finds the run id recorded records nothing: after
\* a request is answered 'duplicate' its run id is in the cache with the time
\* of the run's acceptance, not the time of the duplicate, so the window runs
\* from the acceptance and duplicates do not extend it.
C31_DuplicateRecordsNothing ==
    resp.reason = "duplicate" =>
       /\ resp.payload.id \in DOMAIN processed_runs
       /\ processed_runs[resp.payload.id] = Latest(AcceptTimes(resp.payload.id))

\* A duplicate arrives a whole TTL after the acceptance; the recorded time is
\* still that of the acceptance.
C31_Witness ==
    /\ resp.reason = "duplicate"
    /\ clock - processed_runs[resp.payload.id] = CACHE_TTL_SECONDS

\* The step performs a dedup check (lines 167-174 run in it).
DedupCheck == resp'.age # "n/a"

\* The entries of the cache, as <<run id, timestamp>>, of at most the TTL's age
Fresh(cache, now) ==
    { <<run_id, cache[run_id]>> : run_id \in
         { r \in DOMAIN cache : now - cache[r] <= CACHE_TTL_SECONDS } }

EntriesOf(cache) == { <<run_id, cache[run_id]>> : run_id \in DOMAIN cache }

\* A dedup check at time now leaves no entry older than the TTL and keeps
\* every entry that is not; a step that is no dedup check removes nothing.
PurgeOnArrival ==
    /\ DedupCheck =>
          /\ EntriesOf(processed_runs') = Fresh(processed_runs', clock')
          /\ Fresh(processed_runs, clock') \subseteq EntriesOf(processed_runs')
    /\ ~DedupCheck => processed_runs' = processed_runs

\* C32: each dedup check first purges every entry older than the TTL and
\* removes no entry whose age is within it, so that right after a check at
\* time now every entry (k, ts) has now - ts <= 3600; no other step evicts.
C32_PurgeOnArrivalOnly == [][PurgeOnArrival]_vars

\* A check has purged the entry of another run, accepted more than a TTL ago.
C32_Witness ==
    /\ resp.age # "n/a"
    /\ \E run_id \in RunIds \ {resp.payload.id} :
          /\ Age(run_id, clock) = "expired"
          /\ run_id \notin DOMAIN processed_runs

\* The errors of the result whose error_type is in `types`
TypedAs(types) ==
    { n \in 1..Len(parsed_errors.errors) : parsed_errors.errors[n].error_type \in types }

AllErrors == 1..Len(parsed_errors.errors)

\* C33: the generic fallback runs if and only if no tool pattern matched
\* anywhere in the text: with a tool match every error of the result carries
\* a tool's type, whatever indicator lines the text has; with none, the
\* errors are one per indicator line (up to the limit), each of type
\* "generic" with no file path, line number or column; no result mixes both.
C33_FallbackIffNoToolMatch ==
    Parsed =>
       /\ ToolsMatched(logs) # {} => TypedAs(ToolsMatched(logs)) = AllErrors
       /\ ToolsMatched(logs) = {} =>
             /\ TypedAs({"generic"}) = AllErrors
             /\ Len(parsed_errors.errors) =
                   Len(FirstN(IndicatorLines(logs), GENERIC_LIMIT))
       /\ \A n \in TypedAs({"generic"}) :
             /\ parsed_errors.errors[n].file_path = None
             /\ parsed_errors.errors[n].line_number = <<>>
             /\ parsed_errors.errors[n].column = <<>>

\* A text with a tool's error and an indicator line gives the tool's error
\* alone.
C33_Witness ==
    /\ Parsed
    /\ ToolsMatched(logs) # {}
    /\ HasIndicator(logs)
    /\ Len(parsed_errors.errors) = 1

\* C34: confidence is advisory only: whether apply_fix is called with the
\* changes of a FixResult depends on its can_fix alone, so two results that
\* differ only in confidence lead to the same actions; a FixResult with
\* can_fix true and confidence 0.0 is applied.
C34_ConfidenceAdvisory ==
    GaveResult =>
       /\ applier_input = <<>> =>
             (ENABLED CallApplyFix <=> Truthy(fix_result.result.can_fix))
       /\ applier_input # <<>> =>
             /\ Truthy(fix_result.result.can_fix)
             /\ applier_input[1] = fix_result.result.changes

\* A FixResult with can_fix true and confidence 0.0 has had its change handed
\* to apply_fix.
C34_Witness ==
    /\ GaveResult
    /\ fix_result.result.can_fix = Bool(TRUE)
    /\ fix_result.result.confidence = Number("0.0")
    /\ applier_input # <<>>
    /\ applier_input[1] # <<>>

\* C35: every file apply_fix writes lies inside the working copy of its
\* task, whatever file paths the changes of the decoded reply name.
C35_WritesInsideWorkingCopy ==
    workspace # NotCalled =>
       \A w \in WorkItems :
          \A place \in Written(w) : place[1] = workspace.item[w].temp_dir

\* The step answers a request that did not reach the dedup step.
AnsweredBeforeDedup ==
    \/ resp'.status = "401"
    \/ resp'.reason \in {"not a workflow_run event", "action, conclusion",
                         "repository not allowed"}

\* C36: a request that is rejected (invalid signature) or ignored (another
\* event, another action or conclusion, repository not allowed) before the
\* dedup step leaves the cache as it was: its run id is not recorded and no
\* expired entry is purged.
C36_EarlyAnswersLeaveCache == [][AnsweredBeforeDedup => processed_runs' = processed_runs]_vars

\* A request for a repository that is not allowed was ignored while the cache
\* held an entry older than the TTL, and the entry is still there.
C36_Witness ==
    /\ resp.reason = "repository not allowed"
    /\ \E run_id \in DOMAIN processed_runs :
          clock - processed_runs[run_id] > CACHE_TTL_SECONDS

\* The terminal states of a work item
TerminalStates == {"NO_ERRORS", "NOT_FIXABLE", "PUBLISHED", "FAILED"}

\* The tasks that are not over
Unfinished == { item \in Tasks : item.pc # "done" }

\* A task that is over is in one terminal state, and one that is not is in
\* none; no task has called a stage twice.
EndsInTerminalState ==
    \A item \in Tasks :
       /\ item.pc = "done" <=> item.outcome # "none"
       /\ item.pc = "done" => item.outcome \in TerminalStates
       /\ \A m, n \in 1..Len(item.trace) : item.trace[m] = item.trace[n] => m = n

\* A task that is over takes no step: it is not among the tasks afterwards
\* unless the step left everything as it was.
NoStepAfterEnd ==
    \A item \in Finished : item \notin BagToSet(Live(items'))

\* Every task there is comes to its end.
EveryTaskEnds == (Unfinished # {}) ~> (Unfinished = {})

\* C37: provided every external call returns or raises in the end, every
\* accepted work item ends in exactly one of the terminal states NO_ERRORS,
\* NOT_FIXABLE, PUBLISHED and FAILED and does nothing afterwards, and no
\* stage of it is run twice.
C37_EveryItemTerminates ==
    /\ []EndsInTerminalState
    /\ [][NoStepAfterEnd]_vars
    /\ EveryTaskEnds

\* apply_fix was called with an empty list of changes.
EmptyFix == applied # NotCalled /\ applier_input[1] = <<>>

\* The working copy holds what the checkout held.
NothingWritten ==
    /\ applied.written = 0
    /\ \E marker \in Markers : applied.files = Checkout(marker)

\* C38: a fix with no changes is not cut short: apply_fix writes no file,
\* and the task still calls create_fix_pr and, when that has succeeded, the
\* fix-published notification, and ends PUBLISHED.
C38_EmptyFixGoesOn ==
    EmptyFix =>
       /\ NothingWritten
       /\ applied.pc = "done" =>
             /\ "create_fix_pr" \in Stages(applied)
             /\ "send_pr_notification" \in Stages(applied) =>
                   applied.outcome = "PUBLISHED"

====
